---- MODULE Spec2Model ----
(***************************************************************************)
(* A model of the financial estimation core of EngiMetric                  *)
(* (backend/services/analytics_engine.py) and of the request boundary in   *)
(* backend/routes/analytics.py.                                            *)
(*                                                                         *)
(* Number representation.  The source computes in Python floats.  Here     *)
(*   - benchmark values and interpolated values are exact rationals held   *)
(*     as integers in units of 1/LerpDen (the benchmark score gaps are     *)
(*     1, 2 and 3, so every interpolated value is a multiple of 1/6);      *)
(*   - percentages of the risk calculator are whole numbers, as in the     *)
(*     source (8.0, 5.0, 4.0, 3.0, 35.0);                                  *)
(*   - probabilities and price ratios are fixed-point numbers in units of  *)
(*     1/ProbScale.                                                        *)
(***************************************************************************)
EXTENDS Integers, Sequences, FiniteSets, TLC

VARIABLES
    pc,                 \* "idle" between requests, "done" when a call has returned
    op,                 \* name of the operation that ran last ("none" when idle)
    args,               \* its arguments
    result,             \* its return value
    rng,                \* the process-wide generator of Python's random module
    MARKET_BENCHMARKS,  \* the module-level benchmark table
    threads             \* the concurrent invocations of monte_carlo_simulation

vars == <<pc, op, args, result, rng, MARKET_BENCHMARKS, threads>>

\* ------------------------------------------------------------------ helpers

Min(a, b) == IF a <= b THEN a ELSE b

Max(a, b) == IF a >= b THEN a ELSE b

\* ------------------------------------------------------- reference tables

CLASSIFICATION ==
    << [cls |-> "Normal",     lo |-> 0,  hi |-> 6],
       [cls |-> "Moderate",   lo |-> 7,  hi |-> 12],
       [cls |-> "High",       lo |-> 13, hi |-> 18],
       [cls |-> "Industrial", lo |-> 19, hi |-> 25] >>

Tiers == {"Normal", "Moderate", "High", "Industrial"}

BenchmarkTable ==
    << [id |-> 1,  score |-> 4,  hardware_cost |-> <<900, 1200>>,
        hours |-> <<25, 40>>,   rate |-> 500,  total_cost |-> <<15000, 22000>>],
       [id |-> 2,  score |-> 6,  hardware_cost |-> <<1500, 2500>>,
        hours |-> <<35, 50>>,   rate |-> 600,  total_cost |-> <<25000, 38000>>],
       [id |-> 3,  score |-> 9,  hardware_cost |-> <<3000, 5000>>,
        hours |-> <<60, 90>>,   rate |-> 800,  total_cost |-> <<55000, 85000>>],
       [id |-> 4,  score |-> 10, hardware_cost |-> <<4000, 7000>>,
        hours |-> <<70, 100>>,  rate |-> 900,  total_cost |-> <<70000, 100000>>],
       [id |-> 5,  score |-> 12, hardware_cost |-> <<15000, 30000>>,
        hours |-> <<90, 140>>,  rate |-> 1000, total_cost |-> <<120000, 170000>>],
       [id |-> 6,  score |-> 14, hardware_cost |-> <<8000, 15000>>,
        hours |-> <<120, 180>>, rate |-> 1200, total_cost |-> <<160000, 240000>>],
       [id |-> 7,  score |-> 16, hardware_cost |-> <<120000, 250000>>,
        hours |-> <<180, 250>>, rate |-> 1500, total_cost |-> <<400000, 600000>>],
       [id |-> 8,  score |-> 17, hardware_cost |-> <<200000, 400000>>,
        hours |-> <<200, 300>>, rate |-> 1800, total_cost |-> <<600000, 1000000>>],
       [id |-> 9,  score |-> 20, hardware_cost |-> <<300000, 600000>>,
        hours |-> <<250, 400>>, rate |-> 2000, total_cost |-> <<800000, 1400000>>],
       [id |-> 10, score |-> 23, hardware_cost |-> <<500000, 1000000>>,
        hours |-> <<350, 600>>, rate |-> 2500, total_cost |-> <<1500000, 2500000>>] >>

Fields == {"hours", "hardware_cost", "total_cost", "rate"}

Subs == {"low", "high"}

\* ------------------------------------------ Step 1: complexity scoring

\* classify_complexity: the first tier of CLASSIFICATION (in table order) whose
\* range holds the score; outside every range, Industrial above 25, else Normal.
RECURSIVE ClassifyFrom(_, _)
ClassifyFrom(score, i) ==
    IF i > Len(CLASSIFICATION)
    THEN (IF score > 25 THEN "Industrial" ELSE "Normal")
    ELSE IF CLASSIFICATION[i].lo <= score /\ score <= CLASSIFICATION[i].hi
         THEN CLASSIFICATION[i].cls
         ELSE ClassifyFrom(score, i + 1)

classify_complexity(score) == ClassifyFrom(score, 1)

\* A scorer that forgets the upper limit of a dimension: max(0, v).
ClampBelowOnly(v) == Max(0, v)

\* max(0, min(5, v))
ClampDim(v) == Max(0, Min(5, v))

compute_complexity_score(hardware, software, ai_ml, deployment, risk_safety) ==
    LET hw  == ClampDim(hardware)
        sw  == ClampDim(software)
        ai  == ClampDim(ai_ml)
        dep == ClampDim(deployment)
        rs  == ClampDim(risk_safety)
        total == hw + sw + ai + dep + rs
    IN  [scores |-> [hardware |-> hw, software |-> sw, ai_ml |-> ai,
                     deployment |-> dep, risk_safety |-> rs],
         total_score |-> total,
         classification |-> classify_complexity(total)]

\* ------------------------------------------ Step 2: benchmark interpolation

\* Denominator of the exact rationals that stand for the floats of _lerp.
LerpDen == 6

\* A _lerp whose equal-ends case forgets to halve: y0 + y1.
LerpUnhalved(x, x0, x1, y0, y1) ==
    IF x1 = x0
    THEN (y0 + y1) * LerpDen
    ELSE y0 * LerpDen + ((x - x0) * (y1 - y0) * LerpDen) \div (x1 - x0)

\* A _lerp that measures the fraction from the upper end: y1 - t * (y1 - y0).
LerpFromUpper(x, x0, x1, y0, y1) ==
    IF x1 = x0
    THEN ((y0 + y1) * LerpDen) \div 2
    ELSE y1 * LerpDen - ((x - x0) * (y1 - y0) * LerpDen) \div (x1 - x0)

\* _lerp(x, x0, x1, y0, y1), in units of 1/LerpDen.
\* x1 == x0: (y0 + y1) / 2; otherwise y0 + (x - x0)/(x1 - x0) * (y1 - y0).
_lerp(x, x0, x1, y0, y1) ==
    IF x1 = x0
    THEN ((y0 + y1) * LerpDen) \div 2
    ELSE y0 * LerpDen + ((x - x0) * (y1 - y0) * LerpDen) \div (x1 - x0)

\* sorted(MARKET_BENCHMARKS, key=score): a stable insertion sort into a new list.
RECURSIVE InsertByScore(_, _)
InsertByScore(b, s) ==
    IF s = <<>> THEN <<b>>
    ELSE IF b.score < Head(s).score
         THEN <<b>> \o s
         ELSE <<Head(s)>> \o InsertByScore(b, Tail(s))

RECURSIVE SortedByScore(_)
SortedByScore(s) ==
    IF s = <<>> THEN <<>>
    ELSE LET front == SubSeq(s, 1, Len(s) - 1)
         IN  InsertByScore(s[Len(s)], SortedByScore(front))

\* A field selector that reads the low end whatever the sub-selector says.
FieldLowOnly(b, field, sub) ==
    IF field = "rate" THEN b.rate
    ELSE IF field = "hours" THEN b.hours[1]
    ELSE IF field = "hardware_cost" THEN b.hardware_cost[1]
    ELSE b.total_cost[1]

\* b[field][0] if sub == "low" else b[field][1]; a scalar field as it is.
FieldValue(b, field, sub) ==
    IF field = "rate" THEN b.rate
    ELSE LET pair == CASE field = "hours"         -> b.hours
                       [] field = "hardware_cost" -> b.hardware_cost
                       [] OTHER                   -> b.total_cost
         IN  IF sub = "low" THEN pair[1] ELSE pair[2]

\* The bracket loop: lower is the last benchmark below the score seen before the
\* first benchmark above it, upper that first benchmark above; the defaults are
\* the first and the last entry of the sorted table.
RECURSIVE BracketFrom(_, _, _, _, _)
BracketFrom(sorted_bm, score, i, lower, upper) ==
    IF i > Len(sorted_bm) THEN [lower |-> lower, upper |-> upper]
    ELSE IF sorted_bm[i].score < score
         THEN BracketFrom(sorted_bm, score, i + 1, sorted_bm[i], upper)
         ELSE IF sorted_bm[i].score > score
              THEN [lower |-> lower, upper |-> sorted_bm[i]]
              ELSE BracketFrom(sorted_bm, score, i + 1, lower, upper)

\* A bracket that always takes the two ends of the sorted table.
BracketEnds(sorted_bm, score) ==
    [lower |-> sorted_bm[1], upper |-> sorted_bm[Len(sorted_bm)]]

Bracket(sorted_bm, score) ==
    BracketFrom(sorted_bm, score, 1, sorted_bm[1], sorted_bm[Len(sorted_bm)])

\* The exact-match loop: the first benchmark of the sorted table with this score.
ExactMatches(sorted_bm, score) ==
    {i \in 1..Len(sorted_bm) : sorted_bm[i].score = score}

FirstIndex(S) == CHOOSE i \in S : \A j \in S : i <= j

\* _interpolate_from_benchmarks(score, field, sub), in units of 1/LerpDen.
_interpolate_from_benchmarks(score, field, sub) ==
    LET sorted_bm == SortedByScore(MARKET_BENCHMARKS)
        exact == ExactMatches(sorted_bm, score)
    IN  IF exact # {}
        THEN FieldValue(sorted_bm[FirstIndex(exact)], field, sub) * LerpDen
        ELSE LET br == Bracket(sorted_bm, score)
             IN  _lerp(score, br.lower.score, br.upper.score,
                       FieldValue(br.lower, field, sub),
                       FieldValue(br.upper, field, sub))

\* ------------------------------------------ Step 3: risk calculation

BaseRisk == 8

RiskCap == 35

\* An add-on list with the amounts of the first two flags exchanged.
RiskAddonsExchanged ==
    << [flag |-> "safety_critical", label |-> "Safety critical",        amount |-> 4],
       [flag |-> "has_ai",          label |-> "AI/ML involved",         amount |-> 5],
       [flag |-> "custom_pcb",      label |-> "Custom PCB",             amount |-> 3],
       [flag |-> "large_scale",     label |-> "Large-scale deployment", amount |-> 3] >>

RiskAddons ==
    << [flag |-> "safety_critical", label |-> "Safety critical",        amount |-> 5],
       [flag |-> "has_ai",          label |-> "AI/ML involved",         amount |-> 4],
       [flag |-> "custom_pcb",      label |-> "Custom PCB",             amount |-> 3],
       [flag |-> "large_scale",     label |-> "Large-scale deployment", amount |-> 3] >>

RECURSIVE RiskFrom(_, _, _, _)
RiskFrom(flags, i, risk, breakdown) ==
    IF i > Len(RiskAddons) THEN [risk |-> risk, breakdown |-> breakdown]
    ELSE IF flags[RiskAddons[i].flag]
         THEN RiskFrom(flags, i + 1, risk + RiskAddons[i].amount,
                       Append(breakdown, <<RiskAddons[i].label, RiskAddons[i].amount>>))
         ELSE RiskFrom(flags, i + 1, risk, breakdown)

\* A calculator whose ceiling lies below the sum of all add-ons.
RiskCappedLow(safety_critical, has_ai, custom_pcb, large_scale) ==
    LET flags == [safety_critical |-> safety_critical, has_ai |-> has_ai,
                  custom_pcb |-> custom_pcb, large_scale |-> large_scale]
        sum == RiskFrom(flags, 1, BaseRisk, << <<"Base risk", BaseRisk>> >>)
        risk == Min(20, sum.risk)
    IN  [risk_percent |-> risk, breakdown |-> sum.breakdown, capped |-> risk >= 20]

calculate_risk(safety_critical, has_ai, custom_pcb, large_scale) ==
    LET flags == [safety_critical |-> safety_critical, has_ai |-> has_ai,
                  custom_pcb |-> custom_pcb, large_scale |-> large_scale]
        sum == RiskFrom(flags, 1, BaseRisk, << <<"Base risk", BaseRisk>> >>)
        risk == Min(RiskCap, sum.risk)
    IN  [risk_percent |-> risk, breakdown |-> sum.breakdown, capped |-> risk >= RiskCap]

\* ------------------------------------------ fixed-point arithmetic

\* Money is held in hundredths of a currency unit.
MoneyScale == 100

\* Probabilities, price ratios and exponents are held in units of 1/ProbScale.
ProbScale == 10000

\* floor(r * m / c) with its remainder, for 0 <= r < c, by binary long
\* multiplication (no intermediate value exceeds 3 * c).
RECURSIVE MulDivQR(_, _, _)
MulDivQR(r, m, c) ==
    IF m = 0 THEN [q |-> 0, rem |-> 0]
    ELSE LET h == MulDivQR(r, m \div 2, c)
             t == 2 * h.rem + (m % 2) * r
         IN  [q |-> 2 * h.q + t \div c, rem |-> t % c]

\* floor(a * m / c) for a >= 0, m >= 0, c > 0.
MulDiv(a, m, c) == (a \div c) * m + MulDivQR(a % c, m, c).q

\* A rounding that drops the fraction.
RoundDown(num, den) == num \div den

\* Python's round(): num/den to the nearest integer, ties to the even one.
RoundHalfEven(num, den) ==
    LET q == num \div den
        r == num % den
    IN  IF 2 * r < den THEN q
        ELSE IF 2 * r > den THEN q + 1
        ELSE IF q % 2 = 0 THEN q ELSE q + 1

\* ------------------------------------------ Step 4: acceptance probability

\* L = 0.92, in hundredths.
LogisticL == 92

\* k = 8.5, in tenths.
LogisticK == 85

\* x0 = 1.18, in hundredths.
LogisticX0 == 118

\* math.exp raises OverflowError above ln(DBL_MAX) = 709.78..., in hundredths.
ExpOverflowAt == 70978

\* Number of Taylor terms of e^(-f), 0 <= f < 1.
ExpTerms == 10

\* round(ProbScale / e): e^(-1) in units of 1/ProbScale.
ExpInvE == (ProbScale * 36788) \div 100000

\* e^(-f) for 0 <= f < ProbScale (f in units of 1/ProbScale), by Horner's rule on
\* the Taylor series 1 - f(1 - f/2(1 - f/3(...))).
RECURSIVE ExpTaylor(_, _)
ExpTaylor(f, k) ==
    IF k > ExpTerms THEN ProbScale
    ELSE ProbScale - (f * ExpTaylor(f, k + 1)) \div (k * ProbScale)

\* v * e^(-q) for a whole number q >= 0.
RECURSIVE TimesExpNegInt(_, _)
TimesExpNegInt(v, q) ==
    IF q = 0 \/ v = 0 THEN v
    ELSE TimesExpNegInt((v * ExpInvE) \div ProbScale, q - 1)

\* e^(-y) for y >= 0, both in units of 1/ProbScale.
ExpNeg(y) == TimesExpNegInt(ExpTaylor(y % ProbScale, 1), y \div ProbScale)

\* The exponent k * (relative_price - x0), in units of 1/ProbScale.
LogisticExponent(relative_price) ==
    (LogisticK * (relative_price - LogisticX0 * (ProbScale \div 100))) \div 10

\* math.exp(k * (relative_price - x0)) overflows a double.
ExpOverflows(relative_price) ==
    LogisticExponent(relative_price) > ExpOverflowAt * (ProbScale \div 100)

\* A curve that does not fall with the price: L at every relative price.
FlatAcceptance(relative_price) == LogisticL * (ProbScale \div 100)

\* _logistic_acceptance(relative_price) = L / (1 + e^x), x = k * (relative - x0),
\* in units of 1/ProbScale.  For x >= 0 the quotient is taken as
\* L * e^(-x) / (1 + e^(-x)), the same value, so that only e^(-y), y >= 0, which
\* lies in (0, 1], is ever formed.
_logistic_acceptance(relative_price) ==
    LET x == LogisticExponent(relative_price)
        Lfix == LogisticL * (ProbScale \div 100)
    IN  IF x < 0
        THEN (Lfix * ProbScale) \div (ProbScale + ExpNeg(0 - x))
        ELSE (Lfix * ExpNeg(x)) \div (ProbScale + ExpNeg(x))

\* max(0.05, min(0.95, .)): the bounds in hundredths.
ProbFloor == 5

ProbCeil == 95

\* One hundredth (0.01) in units of 1/ProbScale.
Hundredth == ProbScale \div 100

\* A final step that forgets max(0.05, min(0.95, .)).
NoClamp(p) == p

ClampProb(p) == Max(ProbFloor * Hundredth, Min(ProbCeil * Hundredth, p))

\* round(p, 3): a value in units of 1/ProbScale to thousandths.
Round3(p) == RoundHalfEven(p, ProbScale \div 1000)

\* A comparison that takes client_type as it is spelled.
AsSpelled(s) == s

\* client_type.lower(), on the spellings the requests use.
Lower(s) ==
    CASE s = "Student"    -> "student"
      [] s = "Enterprise" -> "enterprise"
      [] s = "SME"        -> "sme"
      [] OTHER            -> s

\* The price multipliers of the chart curve, in hundredths.
CurveMultipliers ==
    <<60, 70, 75, 80, 85, 90, 95, 100, 105, 110, 115, 120, 125, 130, 135, 140, 150>>

\* A chain whose SME bonus is given above the optimal price, not at or below it.
ClientAdjustmentAbove(ct, classification, relative) ==
    IF ct = "student" /\ classification = "Normal"
    THEN [amount |-> 10, reasons |-> <<"+10% student + Normal project">>]
    ELSE IF ct = "student" /\ classification = "Moderate"
    THEN [amount |-> 5, reasons |-> <<"+5% student + Moderate project">>]
    ELSE IF ct = "enterprise" /\ relative > ProbScale
    THEN [amount |-> 0 - 10, reasons |-> <<"-10% enterprise + above optimal">>]
    ELSE IF ct = "sme" /\ relative > ProbScale
    THEN [amount |-> 5, reasons |-> <<"+5% SME + fair price">>]
    ELSE [amount |-> 0, reasons |-> <<>>]

\* The if/elif chain on client type, tier and relative price (hundredths).
ClientAdjustment(ct, classification, relative) ==
    IF ct = "student" /\ classification = "Normal"
    THEN [amount |-> 10, reasons |-> <<"+10% student + Normal project">>]
    ELSE IF ct = "student" /\ classification = "Moderate"
    THEN [amount |-> 5, reasons |-> <<"+5% student + Moderate project">>]
    ELSE IF ct = "enterprise" /\ relative > ProbScale
    THEN [amount |-> 0 - 10, reasons |-> <<"-10% enterprise + above optimal">>]
    ELSE IF ct = "sme" /\ relative <= ProbScale
    THEN [amount |-> 5, reasons |-> <<"+5% SME + fair price">>]
    ELSE [amount |-> 0, reasons |-> <<>>]

\* The if/elif on risk_percent (hundredths).
RiskAdjustment(risk_percent) ==
    IF risk_percent > 25
    THEN [amount |-> 0 - 10, reasons |-> <<"-10% high risk (>25%)">>]
    ELSE IF risk_percent > 18
    THEN [amount |-> 0 - 5, reasons |-> <<"-5% elevated risk (>18%)">>]
    ELSE [amount |-> 0, reasons |-> <<>>]

\* The adjustment of one point of the chart curve (hundredths).
CurveAdjustment(ct, classification, mult, risk_percent) ==
    LET client == IF ct = "student" /\ classification \in {"Normal", "Moderate"}
                  THEN (IF classification = "Normal" THEN 10 ELSE 5)
                  ELSE IF ct = "enterprise" /\ mult > 100 THEN 0 - 10
                  ELSE 0
        risk == IF risk_percent > 25 THEN 0 - 10
                ELSE IF risk_percent > 18 THEN 0 - 5
                ELSE 0
    IN  client + risk

\* One point of the chart curve: round(max(0.05, min(0.95, b + adj)), 3).
CurvePoint(ct, classification, mult, risk_percent) ==
    Round3(ClampProb(_logistic_acceptance(mult * Hundredth)
                     + CurveAdjustment(ct, classification, mult, risk_percent) * Hundredth))

\* The body of acceptance_probability, for prices held in units of 1/unit;
\* risk_percent in percent; the probabilities of the result in thousandths.
\* The call raises OverflowError when math.exp overflows in _logistic_acceptance.
AcceptanceIn(unit, quoted_price, predicted_optimal_price, classification, client_type, risk_percent) ==
    LET relative == MulDiv(quoted_price, ProbScale, Max(predicted_optimal_price, unit))
    IN  IF ExpOverflows(relative) THEN [raised |-> "OverflowError"]
        ELSE
        LET base == _logistic_acceptance(relative)
            ct == Lower(client_type)
            client == ClientAdjustment(ct, classification, relative)
            risk == RiskAdjustment(risk_percent)
            adjustment == client.amount + risk.amount
            probability == ClampProb(base + adjustment * Hundredth)
        IN  [raised |-> "none",
             probability |-> Round3(probability),
             probability_pct |-> RoundHalfEven(probability, ProbScale \div 1000),
             relative_price |-> Round3(relative),
             base_acceptance |-> Round3(base),
             adjustment |-> adjustment,
             adjustment_reasons |-> client.reasons \o risk.reasons,
             verdict |-> IF probability >= 70 * Hundredth THEN "High"
                         ELSE IF probability >= 45 * Hundredth THEN "Medium"
                         ELSE "Low",
             prices |-> [i \in 1..Len(CurveMultipliers) |->
                           RoundHalfEven(predicted_optimal_price * CurveMultipliers[i],
                                         unit * 100)],
             probabilities |-> [i \in 1..Len(CurveMultipliers) |->
                                  CurvePoint(ct, classification, CurveMultipliers[i],
                                             risk_percent)],
             current_price |-> RoundHalfEven(quoted_price, unit),
             market_rate |-> RoundHalfEven(predicted_optimal_price, unit)]

\* acceptance_probability(...), prices in units of 1/MoneyScale.
acceptance_probability(quoted_price, predicted_optimal_price, classification, client_type, risk_percent) ==
    AcceptanceIn(MoneyScale, quoted_price, predicted_optimal_price, classification,
                 client_type, risk_percent)

\* ------------------------------------------ exact money arithmetic

\* The floats of estimate_hours and predict_price are held as mixed numbers
\* [w, f]: the value w + f / FracDen with 0 <= f < FracDen.  Twelfths (the
\* midpoints of interpolated values), percentages of percentages and the
\* weights 0.6, 0.4, 0.8, 0.2, 0.7, 0.3 are exact in it.
FracDen == 1200000

Whole(n) == [w |-> n, f |-> 0]

\* num / den for a den that divides FracDen.
Frac(num, den) == [w |-> num \div den, f |-> (num % den) * (FracDen \div den)]

\* num / den for any den > 0, to within 1 / FracDen (rounded down).
FracApprox(num, den) == [w |-> num \div den, f |-> MulDiv(num % den, FracDen, den)]

FAdd(a, b) == [w |-> a.w + b.w + (a.f + b.f) \div FracDen, f |-> (a.f + b.f) % FracDen]

FSub(a, b) ==
    [w |-> a.w - b.w + (a.f - b.f) \div FracDen, f |-> (a.f - b.f) % FracDen]

\* a * k / c for integers k >= 0 and c > 0, c a divisor of FracDen.
FScale(a, k, c) ==
    LET wk == a.w * k
        num == (wk % c) * (FracDen \div c) + (a.f * k) \div c
    IN  [w |-> wk \div c + num \div FracDen, f |-> num % FracDen]

\* a * num / den for a >= 0, num >= 0 and any den > 0, to within 2 / FracDen.
FMulRatio(a, num, den) ==
    LET whole == MulDivQR(a.w % den, num, den)
    IN  FAdd([w |-> (a.w \div den) * num + whole.q,
              f |-> MulDiv(whole.rem, FracDen, den)],
             FracApprox(MulDiv(a.f, num, den), FracDen))

FLess(a, b) == a.w < b.w \/ (a.w = b.w /\ a.f < b.f)

FMax(a, b) == IF FLess(a, b) THEN b ELSE a

\* round(a): to the nearest integer, ties to the even one.
FRound(a) ==
    IF 2 * a.f < FracDen THEN a.w
    ELSE IF 2 * a.f > FracDen THEN a.w + 1
    ELSE IF a.w % 2 = 0 THEN a.w ELSE a.w + 1

\* round(a, 2), in hundredths.
FRound2(a) == FRound(FScale(a, 100, 1))

\* An interpolated value (units of 1/LerpDen) as a mixed number.
FromLerp(v) == Frac(v, LerpDen)

\* ------------------------------------------ Step 2: hours estimation

\* Hour ranges whose upper ends are the lower ends of the next tier.
HoursRangeNarrow ==
    [Normal |-> <<25, 60>>, Moderate |-> <<60, 120>>,
     High |-> <<120, 250>>, Industrial |-> <<250, 600>>]

HOURS_RANGE ==
    [Normal |-> <<25, 50>>, Moderate |-> <<60, 140>>,
     High |-> <<120, 300>>, Industrial |-> <<250, 600>>]

MARKET_RATES ==
    [Normal |-> <<500, 800>>, Moderate |-> <<800, 1200>>,
     High |-> <<1200, 2000>>, Industrial |-> <<2000, 2500>>]

TOTAL_COST_RANGE ==
    [Normal |-> <<15000, 40000>>, Moderate |-> <<55000, 170000>>,
     High |-> <<150000, 1000000>>, Industrial |-> <<800000, 2500000>>]

\* table.get(classification, default)
TableGet(table, classification, default) ==
    IF classification \in DOMAIN table THEN table[classification] ELSE default

\* The (total_score, classification) pairs at which the exact value of
\* 0.7 * ((bm_lo + bm_hi) / 2) + 0.3 * formula_mid ends in .5 while the float
\* the source computes lies just below it (bm_lo and bm_hi are thirds there),
\* among total_score in -2..27 and every classification.
FloatTiesBelow == {<<22, "Moderate">>}

\* estimate_hours(total_score, classification)
estimate_hours(total_score, classification) ==
    LET bm_lo == _interpolate_from_benchmarks(total_score, "hours", "low")
        bm_hi == _interpolate_from_benchmarks(total_score, "hours", "high")
        tier == TableGet(HOURS_RANGE, classification, <<30, 50>>)
        raw_mid == Frac(tier[1] + tier[2] + 4 * total_score, 2)
        formula_mid == FMax(Whole(tier[1]),
                            IF FLess(Whole(tier[2]), raw_mid) THEN Whole(tier[2])
                            ELSE raw_mid)
        sum == FAdd(FScale(Frac(bm_lo + bm_hi, 2 * LerpDen), 7, 10),
                    FScale(formula_mid, 3, 10))
        estimated == IF <<total_score, classification>> \in FloatTiesBelow
                     THEN sum.w ELSE FRound(sum)
        range_min == RoundHalfEven(bm_lo, LerpDen)
        range_max == RoundHalfEven(bm_hi, LerpDen)
    IN  [range |-> <<range_min, range_max>>,
         range_min |-> range_min,
         range_max |-> range_max,
         estimated_hours |-> estimated,
         benchmark_range |-> <<range_min, range_max>>]

\* ------------------------------------------ price prediction

\* A blend that weighs the formula and the benchmark evenly.
EvenWeights == <<5, 5>>

\* The weights of the blend, in tenths: (formula, benchmark).
DefaultWeights == <<6, 4>>

\* A re-weighting that drops the benchmark altogether.
FormulaOnlyWeights == <<10, 0>>

CustomHardwareWeights == <<8, 2>>

\* if hw_ratio > 2.0 or hw_ratio < 0.3, for hw_ratio = hardware_cost / bm_hw_mid
\* with bm_hw_mid > 0.
NonStandardRatio(hardware_cost, bm_hw_mid) ==
    \/ FLess(FScale(bm_hw_mid, 2, 1), hardware_cost)
    \/ FLess(FScale(hardware_cost, 10, 1), FScale(bm_hw_mid, 3, 1))

\* The weights predict_price blends with.
BlendWeights(hardware_cost, bm_hw_mid) ==
    IF FLess(Whole(0), bm_hw_mid) /\ FLess(Whole(0), hardware_cost)
       /\ NonStandardRatio(hardware_cost, bm_hw_mid)
    THEN CustomHardwareWeights
    ELSE DefaultWeights

\* predict_price(...): estimated_hours, risk_percent and profit_percent are
\* integers, hourly_rate and hardware_cost mixed numbers.  Values the source
\* rounds to 2 places are in hundredths; total * spread is computed to within
\* 3 / FracDen.
predict_price(estimated_hours, hourly_rate, hardware_cost, risk_percent, profit_percent, total_score, classification) ==
    LET labor == FScale(hourly_rate, estimated_hours, 1)
        subtotal == FAdd(labor, hardware_cost)
        risk_buffer == FScale(subtotal, risk_percent, 100)
        after_risk == FAdd(subtotal, risk_buffer)
        profit_buffer == FScale(after_risk, profit_percent, 100)
        formula_total == FAdd(after_risk, profit_buffer)
        bm_lo == _interpolate_from_benchmarks(total_score, "total_cost", "low")
        bm_hi == _interpolate_from_benchmarks(total_score, "total_cost", "high")
        bm_mid == Frac(bm_lo + bm_hi, 2 * LerpDen)
        bm_hw_lo == _interpolate_from_benchmarks(total_score, "hardware_cost", "low")
        bm_hw_hi == _interpolate_from_benchmarks(total_score, "hardware_cost", "high")
        bm_hw_mid == Frac(bm_hw_lo + bm_hw_hi, 2 * LerpDen)
        weights == BlendWeights(hardware_cost, bm_hw_mid)
        total == FAdd(FScale(formula_total, weights[1], 10), FScale(bm_mid, weights[2], 10))
        tier_range == TableGet(TOTAL_COST_RANGE, classification, <<15000, 40000>>)
        spread_ratio == FracApprox(tier_range[2] - tier_range[1], Max(tier_range[2], 1))
        spread == FMax(Frac(8, 100),
                       FAdd(FScale(spread_ratio, 3, 10), Frac(15 * risk_percent, 10000)))
        margin == IF FLess(Frac(8, 100), spread)
                  THEN FAdd(FScale(FMulRatio(total, tier_range[2] - tier_range[1],
                                             Max(tier_range[2], 1)), 3, 10),
                            FScale(total, 15 * risk_percent, 10000))
                  ELSE FScale(total, 8, 100)
        ci_low == FSub(total, margin)
        ci_high == FAdd(total, margin)
    IN  [predicted_price |-> FRound2(total),
         confidence_interval |-> <<FRound2(ci_low), FRound2(ci_high)>>,
         base_labor |-> FRound2(labor),
         hardware_cost |-> FRound2(hardware_cost),
         risk_buffer |-> FRound2(risk_buffer),
         profit_buffer |-> FRound2(profit_buffer),
         subtotal |-> FRound2(subtotal),
         formula_price |-> FRound2(formula_total),
         benchmark_range |-> <<RoundHalfEven(bm_lo, LerpDen), RoundHalfEven(bm_hi, LerpDen)>>,
         market_hourly_rate |-> TableGet(MARKET_RATES, classification, <<500, 800>>)]

\* ------------------------------------------ profit optimization

FirstMargin == 5

LastMargin == 40

\* A comparison that lets a later margin of equal revenue replace the best one.
NotWorse(rev, best_revenue) == ~FLess(rev, best_revenue)

\* The comparison of the sweep: a margin replaces the best one only when its
\* revenue is strictly greater.
Better(rev, best_revenue) == FLess(best_revenue, rev)

\* price = base_cost * (1 + m / 100): base_cost in units of 1/unit, the price in
\* units of 1/(100 * unit).
MarginPrice(base_cost, m) == base_cost * (100 + m)

\* Revenues are held exactly: w whole currency units and f / RevenueDen(unit).
RevenueDen(unit) == 1000 * 100 * unit

\* rev = price * acc["probability"], for base_cost in units of 1/unit.
MarginRevenue(unit, base_cost, m, classification, client_type, risk_percent) ==
    LET price == MarginPrice(base_cost, m)
        acc == AcceptanceIn(100 * unit, price, base_cost * 100,
                            classification, client_type, risk_percent)
        den == RevenueDen(unit)
        part == MulDivQR(price % den, acc.probability, den)
    IN  [w |-> (price \div den) * acc.probability + part.q, f |-> part.rem]

\* round(rev)
RoundRevenue(unit, rev) ==
    IF 2 * rev.f < RevenueDen(unit) THEN rev.w
    ELSE IF 2 * rev.f > RevenueDen(unit) THEN rev.w + 1
    ELSE IF rev.w % 2 = 0 THEN rev.w ELSE rev.w + 1

\* The loop over margins: best_margin, best_revenue and the list of rounded
\* revenues after the margins m..LastMargin have been visited.
RECURSIVE SweepFrom(_, _, _, _, _, _, _, _)
SweepFrom(unit, base_cost, classification, client_type, risk_percent, m, best, revenues) ==
    IF m > LastMargin THEN [best |-> best, revenues |-> revenues]
    ELSE LET rev == MarginRevenue(unit, base_cost, m, classification, client_type,
                                  risk_percent)
             seen == Append(revenues, RoundRevenue(unit, rev))
         IN  IF Better(rev, best.revenue)
             THEN SweepFrom(unit, base_cost, classification, client_type, risk_percent,
                            m + 1, [margin |-> m, revenue |-> rev], seen)
             ELSE SweepFrom(unit, base_cost, classification, client_type, risk_percent,
                            m + 1, best, seen)

\* The margins of the chart: range(5, 41, 5).
ChartMargins == <<5, 10, 15, 20, 25, 30, 35, 40>>

\* The dictionary optimize_profit returns once the loop over margins has left
\* sweep: its best margin and the list of rounded revenues.
SweepResult(unit, base_cost, sweep) ==
        [margins |-> ChartMargins,
         expected_revenue |-> [i \in 1..Len(ChartMargins) |->
                                 sweep.revenues[ChartMargins[i] - 5 + 1]],
         optimal_margin |-> sweep.best.margin,
         optimal_price |-> RoundHalfEven(MarginPrice(base_cost, sweep.best.margin),
                                         100 * unit),
         optimal_revenue |-> RoundRevenue(unit, sweep.best.revenue),
         all_margins |-> [i \in 1..(LastMargin - FirstMargin + 1) |-> FirstMargin + i - 1],
         all_revenue |-> sweep.revenues]

\* The body of optimize_profit for base_cost in units of 1/unit; money of the
\* result in whole units.
OptimizeProfitIn(unit, base_cost, classification, client_type, risk_percent) ==
    SweepResult(unit, base_cost,
                SweepFrom(unit, base_cost, classification, client_type, risk_percent,
                          FirstMargin, [margin |-> 5, revenue |-> Whole(0)], <<>>))

\* optimize_profit(base_cost, classification, client_type, risk_percent),
\* base_cost in units of 1/MoneyScale.
optimize_profit(base_cost, classification, client_type, risk_percent) ==
    OptimizeProfitIn(MoneyScale, base_cost, classification, client_type, risk_percent)

\* ------------------------------------------ the process-wide generator

\* Python's random module keeps one generator per process: its state and the
\* cached second value of random.gauss (<<>> when there is none).  The
\* Mersenne Twister is stood for by a full-period linear congruential generator
\* modulo RngMod: a draw is a deterministic function of the state and moves it.
RngMod == 1024

RngMul == 37

RngInc == 11

\* random.seed(a): the state is a function of a alone; the gauss cache is dropped.
Seed(a) == [state |-> (a * RngMul + RngInc) % RngMod, gauss_next |-> <<>>]

\* The seed monte_carlo_simulation gives the generator on every call.
MonteCarloSeed == 42

\* random.random(): the next state, and a value in [0, 1) in units of 1/ProbScale.
Random(g) ==
    LET s == (g.state * RngMul + RngInc) % RngMod
    IN  [value |-> (s * ProbScale) \div RngMod,
         rng |-> [state |-> s, gauss_next |-> g.gauss_next]]

\* random.uniform(a, b) = a + (b - a) * random(), in units of 1/ProbScale.
Uniform(g, a, b) ==
    LET d == Random(g)
    IN  [value |-> a + ((b - a) * d.value) \div ProbScale, rng |-> d.rng]

\* cos and sin of the angle 2 * pi * u, by octant, in hundredths.
CosTable == <<92, 38, 0 - 38, 0 - 92, 0 - 92, 0 - 38, 38, 92>>

SinTable == <<38, 92, 92, 38, 0 - 38, 0 - 92, 0 - 92, 0 - 38>>

\* sqrt(-2 * log(1 - u)), by quarter of [0, 1), in hundredths.
RadiusTable == <<52, 97, 140, 204>>

\* random.gauss(mu, sigma) = mu + z * sigma.  Without a cached value it makes two
\* draws, returns the cosine deviate and caches the sine one; with a cached
\* value it returns that one and clears the cache.  z is in hundredths.
Gauss(g, mu, sigma) ==
    IF g.gauss_next # <<>>
    THEN [value |-> mu + (g.gauss_next[1] * sigma) \div 100,
          rng |-> [state |-> g.state, gauss_next |-> <<>>]]
    ELSE LET d1 == Random(g)
             d2 == Random(d1.rng)
             octant == (8 * d1.value) \div ProbScale + 1
             radius == RadiusTable[(4 * d2.value) \div ProbScale + 1]
             z == (CosTable[octant] * radius) \div 100
         IN  [value |-> mu + (z * sigma) \div 100,
              rng |-> [state |-> d2.rng.state,
                       gauss_next |-> <<(SinTable[octant] * radius) \div 100>>]]

\* ------------------------------------------ Monte Carlo risk simulation

\* Hours are held in hundredths of an hour.
HourScale == 100

\* hours_sigma = base_hours * (0.10 + risk_percent / 100), times 1.3 if has_ai.
HoursSigma(base_hours, risk_percent, has_ai) ==
    LET sigma == (base_hours * (10 + risk_percent)) \div 100
    IN  IF has_ai THEN (sigma * 13) \div 10 ELSE sigma

\* if custom_pcb: rework_probability = min(0.35, rework_probability + 0.10);
\* in hundredths.
EffectiveRework(custom_pcb, rework_probability) ==
    IF custom_pcb THEN Min(35, rework_probability + 10) ELSE rework_probability

\* The five library calls of one iteration of the sampling loop, in order.
\* Each takes the generator as the call before it left it.
SimHours(g, a) ==
    LET d == Gauss(g, a.base_hours, HoursSigma(a.base_hours, a.risk_percent, a.has_ai))
    IN  [value |-> Max(a.base_hours \div 2, d.value), rng |-> d.rng]

SimHardware(g, a) ==
    LET d == Uniform(g, 85 * Hundredth, 115 * Hundredth)
    IN  [value |-> MulDiv(a.hardware_cost, d.value, ProbScale), rng |-> d.rng]

ReworkHappens(g, a) ==
    LET d == Random(g)
    IN  [value |-> d.value < EffectiveRework(a.custom_pcb, a.rework_probability) * Hundredth,
         rng |-> d.rng]

ReworkCost(g, a, sim_hours) ==
    LET d == Uniform(g, 8 * Hundredth, 25 * Hundredth)
    IN  [value |-> MulDiv(MulDiv(sim_hours, a.hourly_rate, HourScale), d.value, ProbScale),
         rng |-> d.rng]

DelayTotal(g, a) ==
    LET sigma == 80 * Hundredth + (a.risk_percent * ProbScale) \div 30
        d == Gauss(g, 0, sigma)
    IN  [value |-> MulDiv(a.delay_cost_per_week, Max(0, d.value), ProbScale),
         rng |-> d.rng]

\* total = labor + sim_hardware + risk_buf + rework + delay_total
SampleTotal(a, sim_hours, sim_hardware, rework, delay_total) ==
    LET labor == MulDiv(sim_hours, a.hourly_rate, HourScale)
        risk_buf == (labor * a.risk_percent) \div 100
    IN  labor + sim_hardware + risk_buf + rework + delay_total

\* One iteration of the loop: the sample it appends and the generator after it.
Iteration(g, a) ==
    LET h == SimHours(g, a)
        hw == SimHardware(h.rng, a)
        rw == ReworkHappens(hw.rng, a)
        rc == IF rw.value THEN ReworkCost(rw.rng, a, h.value)
              ELSE [value |-> 0, rng |-> rw.rng]
        dl == DelayTotal(rc.rng, a)
    IN  [value |-> SampleTotal(a, h.value, hw.value, rc.value, dl.value),
         rng |-> dl.rng]

\* results.append(round(total, 2)) after one iteration it.
Appended(it) == [results |-> <<it.value>>, rng |-> it.rng]

\* i iterations of the loop started from generator g: the samples in the order
\* they are appended, and the generator after the last draw.
RECURSIVE SamplingLoop(_, _, _)
SamplingLoop(g, a, i) ==
    IF i = 0 THEN [results |-> <<>>, rng |-> g]
    ELSE IF i = 1 THEN Appended(Iteration(g, a))
    ELSE LET first == SamplingLoop(g, a, i \div 2)
             rest == SamplingLoop(first.rng, a, i - i \div 2)
         IN  [results |-> first.results \o rest.results, rng |-> rest.rng]

\* A sort that leaves the samples in the order they were appended.
KeepOrder(s) == s

\* results.sort(): ascending.  The place of s[i] in the sorted list is one more
\* than the number of entries that go before it (smaller, or equal and earlier).
SortResults(s) ==
    LET n == Len(s)
        place == <<>> \o [i \in 1..n |->
                     1 + Cardinality({j \in 1..n : s[j] < s[i] \/ (s[j] = s[i] /\ j < i)})]
    IN  [k \in 1..n |-> s[CHOOSE i \in 1..n : place[i] = k]]

\* sum(results)
RECURSIVE SumRange(_, _, _)
SumRange(s, lo, hi) ==
    IF lo > hi THEN 0
    ELSE IF lo = hi THEN s[lo]
    ELSE SumRange(s, lo, (lo + hi) \div 2) + SumRange(s, (lo + hi) \div 2 + 1, hi)

SumSeq(s) == SumRange(s, 1, Len(s))

\* results[int(n * q)] for q in hundredths (the list is indexed from 0 there).
Percentile(results, q) == results[(Len(results) * q) \div 100 + 1]

NumBins == 20

\* The histogram: 20 * bin_width, and 20 * bin_start of bin i (i from 0).
BinWidth20(results) ==
    LET min_val == results[1]
        max_val == results[Len(results)]
    IN  IF max_val > min_val THEN max_val - min_val ELSE NumBins * MoneyScale

BinStart20(results, i) == NumBins * results[1] + i * BinWidth20(results)

\* sum(1 for r in results if bin_start <= r < bin_start + bin_width)
BinCount(results, i) ==
    Cardinality({j \in 1..Len(results) :
                    /\ BinStart20(results, i) <= NumBins * results[j]
                    /\ NumBins * results[j] < BinStart20(results, i + 1)})

\* The aggregates of the sorted results; money in whole units.
Aggregate(results, a) ==
    LET n == Len(results)
        simple_est == MulDiv(a.base_hours, a.hourly_rate, HourScale) + a.hardware_cost
        overrun_count == Cardinality({j \in 1..n : 10 * results[j] > 11 * simple_est})
        p5 == RoundHalfEven(Percentile(results, 5), MoneyScale)
        p95 == RoundHalfEven(Percentile(results, 95), MoneyScale)
    IN  [bins |-> [i \in 1..NumBins |->
                     RoundHalfEven(2 * BinStart20(results, i - 1) + BinWidth20(results),
                                   2 * NumBins * MoneyScale)],
         frequency |-> [i \in 1..NumBins |-> BinCount(results, i - 1)],
         mean |-> RoundHalfEven(SumSeq(results), n * MoneyScale),
         median |-> RoundHalfEven(Percentile(results, 50), MoneyScale),
         best_case |-> p5,
         worst_case |-> p95,
         p25 |-> RoundHalfEven(Percentile(results, 25), MoneyScale),
         p75 |-> RoundHalfEven(Percentile(results, 75), MoneyScale),
         p90 |-> RoundHalfEven(Percentile(results, 90), MoneyScale),
         confidence_90 |-> <<p5, p95>>,
         overrun_probability_pct |-> RoundHalfEven(overrun_count * 1000, n),
         num_simulations |-> a.num_simulations]

\* A first statement that leaves the generator as the caller's history left it.
KeepGenerator(g) == g

\* random.seed(42), the first statement of monte_carlo_simulation: whatever the
\* generator held before is dropped.
Reseed(g) == Seed(MonteCarloSeed)

\* monte_carlo_simulation(...) run from generator g: random.seed(42), the
\* sampling loop, the sort and the aggregates.  Returns the result, the sorted
\* list of samples, and the generator as the call leaves it.
\* results.sort() on what the sampling loop has left.
Sorted(loop) == [results |-> <<>> \o SortResults(loop.results), rng |-> loop.rng]

\* The dictionary monte_carlo_simulation returns for the sorted samples of run.
Summarised(run, a) ==
    [result |-> Aggregate(run.results, a), results |-> run.results, rng |-> run.rng]

monte_carlo_simulation(g, a) ==
    Summarised(Sorted(SamplingLoop(Reseed(g), a, a.num_simulations)), a)

\* ------------------------------------------ radar, nearest benchmarks

\* complexity_radar(scores): overall_score = round(total / 5, 1), in tenths.
complexity_radar(scores) ==
    LET values == <<scores.hardware, scores.software, scores.ai_ml,
                    scores.deployment, scores.risk_safety>>
        total == SumSeq(values)
    IN  [labels |-> <<"Hardware", "Software", "AI/ML", "Deployment", "Risk & Safety">>,
         scores |-> values,
         overall_score |-> RoundHalfEven(total * 10, Len(values)),
         total_score |-> total,
         level |-> classify_complexity(total)]

\* abs(b["score"] - score)
Distance(b, score) == IF b.score >= score THEN b.score - score ELSE score - b.score

\* A ranking that leaves the benchmarks in table order.
Unranked(table, score) == table

\* sorted(MARKET_BENCHMARKS, key=distance): a new list, ascending by distance;
\* the sort is stable, so equally distant benchmarks keep their table order.
Ranked(table, score) ==
    LET n == Len(table)
        place == [i \in 1..n |->
                    1 + Cardinality({j \in 1..n :
                          \/ Distance(table[j], score) < Distance(table[i], score)
                          \/ /\ Distance(table[j], score) = Distance(table[i], score)
                             /\ j < i})]
    IN  [k \in 1..n |-> table[CHOOSE i \in 1..n : place[i] = k]]

\* The table after list.sort(key=distance), which reorders the list itself.
RankedInPlace(table, score) == Ranked(table, score)

\* The table after sorted(MARKET_BENCHMARKS, key=distance): sorted() builds a
\* new list and leaves its argument as it was.
TableAfterRanking(table, score) == table

\* _nearest_benchmarks(score, n): ranked[:n]
_nearest_benchmarks(score, n) ==
    LET ranked == Ranked(MARKET_BENCHMARKS, score)
    IN  SubSeq(ranked, 1, Min(n, Len(ranked)))

\* ------------------------------------------ full analysis

\* num_simulations of the Monte Carlo step: the source leaves it at its default
\* of 5000; the run is made at this count.
DefaultSims == 100

\* rework_probability (hundredths) and delay_cost_per_week left at their defaults.
DefaultRework == 15

DefaultDelayCost == 5000

\* A quote that falls back on the formula price when quoted_price is None.
QuotedOrFormula(quoted_price, price) ==
    IF quoted_price # <<>> THEN quoted_price[1] ELSE price.formula_price

\* qp = quoted_price if quoted_price is not None else price["predicted_price"]
QuotedOrPredicted(quoted_price, price) ==
    IF quoted_price # <<>> THEN quoted_price[1] ELSE price.predicted_price

\* A mixed number of twelfths as a count of twelfths.
Twelfths(a) == a.w * 12 + a.f \div (FracDen \div 12)

\* A detection that takes the low end of the benchmark hardware-cost range.
LowEndHardware(low, high) == Frac(2 * low, 2 * LerpDen)

\* actual_hw when the request gives none: (low + high) / 2 of the interpolated
\* hardware-cost range, low and high in units of 1/LerpDen.
DetectedHardware(low, high) == Frac(low + high, 2 * LerpDen)

\* The value a local variable holds: the expression of an assignment is
\* computed once, when the statement runs, and the name then stands for it.
Only(S) == CHOOSE x \in S : TRUE

\* full_analysis(...) run from generator g; req holds the keyword arguments:
\* hourly_rate and hardware_cost in whole currency units, quoted_price <<>> for
\* None or <<q>> for a price q in units of 1/MoneyScale.  Returns the report and
\* the generator as the Monte Carlo step leaves it; when the acceptance step
\* raises, the Monte Carlo step is not reached.
\* Each local is bound once, innermost last: read the stages from the bottom.
full_analysis(g, req) ==
    Only({Only({Only({Only({Only({
        IF accept.raised # "none" THEN [raised |-> accept.raised, rng |-> g]
        ELSE
        [raised |-> "none",
         rng |-> mc.rng,
         report |->
           [complexity |-> comp,
            hours |-> hours,
            risk |-> risk,
            pricePrediction |-> price,
            acceptanceModel |-> accept,
            riskSimulation |-> mc.result,
            profitOptimization |-> profit_opt,
            complexityAnalysis |-> radar,
            reasoning |->
              [classification |-> comp.classification,
               total_score |-> comp.total_score,
               estimated_hours |-> hours.estimated_hours,
               hourly_rate |-> FRound(hourly_rate),
               suggested_rate |-> FRound(suggested_rate),
               risk_percent |-> risk.risk_percent,
               predicted_price |-> RoundHalfEven(price.predicted_price, MoneyScale),
               benchmark_range |-> price.benchmark_range,
               probability_pct |-> accept.probability_pct,
               verdict |-> accept.verdict,
               similar |-> <<nearest[1].id, nearest[1].score>>],
            similar_projects |->
              [i \in 1..Len(nearest) |->
                 [name |-> nearest[i].id, score |-> nearest[i].score,
                  cost_range |-> nearest[i].total_cost, hours |-> nearest[i].hours,
                  rate |-> nearest[i].rate]],
            market_context |->
              [suggested_rate |-> FRound(suggested_rate),
               market_rate_range |->
                   TableGet(MARKET_RATES, comp.classification, <<500, 800>>),
               total_cost_range |->
                   TableGet(TOTAL_COST_RANGE, comp.classification, <<15000, 40000>>),
               hardware_cost_estimate |-> FRound(actual_hw)]]]
        \* steps 4b, 5, 6: acceptance, Monte Carlo, profit sweep; radar; nearest
        : accept \in {acceptance_probability(QuotedOrPredicted(req.quoted_price, price),
                                             price.predicted_price, comp.classification,
                                             req.client_type, risk.risk_percent)},
          mc \in {monte_carlo_simulation(g,
                      [base_hours |-> hours.estimated_hours * HourScale,
                       hourly_rate |-> FRound2(hourly_rate),
                       hardware_cost |-> FRound2(actual_hw),
                       risk_percent |-> risk.risk_percent,
                       has_ai |-> req.has_ai, custom_pcb |-> req.custom_pcb,
                       rework_probability |-> DefaultRework,
                       delay_cost_per_week |-> DefaultDelayCost * MoneyScale,
                       num_simulations |-> DefaultSims])},
          profit_opt \in {OptimizeProfitIn(12,
                              Twelfths(FAdd(FScale(hourly_rate, hours.estimated_hours, 1),
                                            actual_hw)),
                              comp.classification, req.client_type, risk.risk_percent)},
          radar \in {complexity_radar(comp.scores)},
          nearest \in {_nearest_benchmarks(comp.total_score, 3)}})
        \* step 4: price
        : price \in {predict_price(hours.estimated_hours, hourly_rate, actual_hw,
                                   risk.risk_percent, req.profit_percent,
                                   comp.total_score, comp.classification)}})
        \* the rate of the request, or the suggested one
        : hourly_rate \in {IF req.hourly_rate <= 0 THEN suggested_rate
                           ELSE Whole(req.hourly_rate)}})
        \* step 2: hours; the suggested rate and the hardware cost
        : suggested_rate \in {FromLerp(_interpolate_from_benchmarks(comp.total_score,
                                                                    "rate", "low"))},
          hours \in {estimate_hours(comp.total_score, comp.classification)},
          actual_hw \in {IF req.hardware_cost <= 0
                         THEN DetectedHardware(
                                  _interpolate_from_benchmarks(comp.total_score,
                                                               "hardware_cost", "low"),
                                  _interpolate_from_benchmarks(comp.total_score,
                                                               "hardware_cost", "high"))
                         ELSE Whole(req.hardware_cost)}})
        \* steps 1 and 3: complexity, risk
        : comp \in {compute_complexity_score(req.hardware_score, req.software_score,
                                             req.ai_ml_score, req.deployment_score,
                                             req.risk_safety_score)},
          risk \in {calculate_risk(req.safety_critical, req.has_ai, req.custom_pcb,
                                   req.large_scale)}})

\* ------------------------------------------ PricingEngine (pricing_engine.py)

\* request_data.get(key, default)
Get(request_data, key, default) ==
    IF key \in DOMAIN request_data THEN request_data[key] ELSE default

\* The keyword arguments every model takes, with the defaults of calculate.
\* Percentages and money are whole numbers here; results are in hundredths.
Common(request_data) ==
    [risk_percentage |-> Get(request_data, "risk_percentage", 10),
     profit_margin |-> Get(request_data, "profit_margin", 15),
     hardware_costs |-> Get(request_data, "hardware_costs", 0),
     software_costs |-> Get(request_data, "software_costs", 0),
     maintenance_months |-> Get(request_data, "maintenance_months", 0),
     maintenance_monthly_rate |-> Get(request_data, "maintenance_monthly_rate", 0)]

\* The part the five models share: risk and profit on the subtotal, the
\* maintenance cost, and the total with the costs that are not in the subtotal.
Priced(model_type, subtotal, outside, common, breakdown) ==
    LET risk_amount == FScale(subtotal, common.risk_percentage, 100)
        profit_amount == FScale(subtotal, common.profit_margin, 100)
        maintenance_cost == common.maintenance_months * common.maintenance_monthly_rate
        total == FAdd(FAdd(subtotal, FAdd(risk_amount, profit_amount)),
                      Whole(outside + maintenance_cost))
    IN  [model_type |-> model_type,
         subtotal |-> FRound2(subtotal),
         hardware_cost |-> common.hardware_costs * MoneyScale,
         software_cost |-> common.software_costs * MoneyScale,
         risk_amount |-> FRound2(risk_amount),
         profit_amount |-> FRound2(profit_amount),
         maintenance_cost |-> maintenance_cost * MoneyScale,
         total_cost |-> FRound2(total),
         breakdown |-> breakdown]

calculate_hourly(hourly_rate, estimated_hours, common) ==
    LET subtotal == Whole(hourly_rate * estimated_hours)
    IN  Priced("hourly", subtotal, common.hardware_costs + common.software_costs, common,
               [hourly_rate |-> hourly_rate, hours |-> estimated_hours,
                base_labor |-> FRound2(subtotal), risk_pct |-> common.risk_percentage,
                profit_pct |-> common.profit_margin])

calculate_fixed(hourly_rate, estimated_hours, common) ==
    LET labor == hourly_rate * estimated_hours
        subtotal == Whole(labor + common.hardware_costs + common.software_costs)
    IN  Priced("fixed", subtotal, 0, common,
               [labor |-> labor * MoneyScale,
                materials |-> (common.hardware_costs + common.software_costs) * MoneyScale,
                risk_pct |-> common.risk_percentage, profit_pct |-> common.profit_margin])

calculate_value_based(estimated_client_revenue, value_percentage, common) ==
    LET subtotal == FScale(Whole(estimated_client_revenue), value_percentage, 100)
    IN  Priced("value_based", subtotal, common.hardware_costs + common.software_costs,
               common,
               [client_revenue |-> estimated_client_revenue, value_pct |-> value_percentage,
                value_amount |-> FRound2(subtotal)])

\* complexity_multiplier is in tenths.
calculate_complexity_multiplier(hourly_rate, estimated_hours, complexity_multiplier, common) ==
    LET base_cost == hourly_rate * estimated_hours
        subtotal == FScale(Whole(base_cost), complexity_multiplier, 10)
    IN  Priced("complexity_multiplier", subtotal,
               common.hardware_costs + common.software_costs, common,
               [base_cost |-> base_cost * MoneyScale, multiplier |-> complexity_multiplier,
                adjusted_cost |-> FRound2(subtotal)])

DefaultModules ==
    [research |-> 0, design |-> 0, development |-> 0, testing |-> 0,
     documentation |-> 0, deployment |-> 0]

\* sum(merged.values())
RECURSIVE TotalHours(_, _)
TotalHours(merged, names) ==
    IF names = {} THEN 0
    ELSE LET name == CHOOSE x \in names : TRUE
         IN  merged[name] + TotalHours(merged, names \ {name})

calculate_modular(hourly_rate, modules, common) ==
    LET merged == modules @@ DefaultModules
        total_hours == TotalHours(merged, DOMAIN merged)
    IN  Priced("modular", Whole(total_hours * hourly_rate),
               common.hardware_costs + common.software_costs, common,
               [modules |-> [name \in DOMAIN merged |->
                               [hours |-> merged[name],
                                cost |-> merged[name] * hourly_rate * MoneyScale]],
                total_hours |-> total_hours])

\* A dispatcher that prices an unrecognized model as nothing instead of failing.
UnknownModelIgnored(model_type) == [model_type |-> model_type, total_cost |-> 0]

\* raise ValueError(f"Unknown pricing model: {model_type}")
UnknownModel(model_type) ==
    [raised |-> "ValueError", message |-> <<"Unknown pricing model", model_type>>]

\* PricingEngine.calculate(request_data)
calculate(request_data) ==
    LET model_type == Get(request_data, "model_type", "hourly")
        common == Common(request_data)
        hourly_rate == Get(request_data, "hourly_rate", 50)
        estimated_hours == Get(request_data, "estimated_hours", 0)
    IN  IF model_type = "hourly"
        THEN calculate_hourly(hourly_rate, estimated_hours, common)
        ELSE IF model_type = "fixed"
        THEN calculate_fixed(hourly_rate, estimated_hours, common)
        ELSE IF model_type = "value_based"
        THEN calculate_value_based(Get(request_data, "estimated_client_revenue", 0),
                                   Get(request_data, "value_percentage", 10), common)
        ELSE IF model_type = "complexity_multiplier"
        THEN calculate_complexity_multiplier(hourly_rate, estimated_hours,
                                             Get(request_data, "complexity_multiplier", 10),
                                             common)
        ELSE IF model_type = "modular"
        THEN calculate_modular(hourly_rate, Get(request_data, "modules", <<>>), common)
        ELSE UnknownModel(model_type)

\* ------------------------------------------ requests (sequential)

NoValue == <<>>

\* Largest dimension value a request is given (the scorer takes any integer).
MaxDim == 6

DimInputs == (0 - 1)..MaxDim

\* Largest target score given to the interpolator.
MaxScoreIn == 26

ScoreInputs == (0 - 2)..MaxScoreIn

\* Prices of acceptance requests, in units of 1/MoneyScale.
QuotedInputs == {0, 50, 100, 900, 1000, 1001, 1180, 1500, 10000}

PredictedInputs == {0, 50, 100, 1000}

ClassInputs == Tiers \cup {"Unknown"}

ClientInputs == {"startup", "student", "Student", "enterprise", "sme", "SME"}

RiskInputs == {8, 18, 19, 25, 26}

\* Base costs of profit-optimization requests, in units of 1/MoneyScale.
BaseCostInputs == {0, 50, 100, 16000}

Init ==
    /\ pc = "idle"
    /\ op = "none"
    /\ args = NoValue
    /\ result = NoValue
    /\ rng = Seed(0)
    /\ MARKET_BENCHMARKS = BenchmarkTable
    /\ threads = NoValue

\* A call of a pure operation: it runs to its return and leaves the generator,
\* the table and the threads alone.
Returns(name, a, r) ==
    /\ pc' = "done"
    /\ op' = name
    /\ args' = a
    /\ result' = r
    /\ UNCHANGED <<rng, MARKET_BENCHMARKS, threads>>

CallComplexityScore ==
    /\ pc = "idle"
    /\ \E hw \in DimInputs, sw \in DimInputs, ai \in DimInputs,
          dep \in DimInputs, rs \in DimInputs :
           Returns("compute_complexity_score",
                   [hardware |-> hw, software |-> sw, ai_ml |-> ai,
                    deployment |-> dep, risk_safety |-> rs],
                   compute_complexity_score(hw, sw, ai, dep, rs))

CallInterpolate ==
    /\ pc = "idle"
    /\ \E score \in ScoreInputs, field \in Fields, sub \in Subs :
           Returns("_interpolate_from_benchmarks",
                   [score |-> score, field |-> field, sub |-> sub],
                   _interpolate_from_benchmarks(score, field, sub))

CallRisk ==
    /\ pc = "idle"
    /\ \E sc \in BOOLEAN, ai \in BOOLEAN, pcb \in BOOLEAN, ls \in BOOLEAN :
           Returns("calculate_risk",
                   [safety_critical |-> sc, has_ai |-> ai, custom_pcb |-> pcb,
                    large_scale |-> ls],
                   calculate_risk(sc, ai, pcb, ls))

CallAcceptance ==
    /\ pc = "idle"
    /\ \E q \in QuotedInputs, p \in PredictedInputs, cls \in ClassInputs,
          ct \in ClientInputs, risk \in RiskInputs :
           Returns("acceptance_probability",
                   [quoted_price |-> q, predicted_optimal_price |-> p,
                    classification |-> cls, client_type |-> ct, risk_percent |-> risk],
                   acceptance_probability(q, p, cls, ct, risk))

CallOptimizeProfit ==
    /\ pc = "idle"
    /\ \E b \in BaseCostInputs, cls \in ClassInputs, ct \in ClientInputs,
          risk \in RiskInputs :
           Returns("optimize_profit",
                   [base_cost |-> b, classification |-> cls, client_type |-> ct,
                    risk_percent |-> risk],
                   optimize_profit(b, cls, ct, risk))

\* Hours of price requests (the request model takes estimated_hours >= 1).
HoursInputs == {1, 30}

\* Hourly rates and hardware costs of price requests, in whole currency units.
RateInputs == {0, 600}

HardwareInputs == {0, 599, 600, 1000, 4000, 4001}

ProfitInputs == {0, 20}

PriceRiskInputs == {8, 23}

\* Scores of price requests: a flat segment, a grid score, an interpolated one.
PriceScoreInputs == {0, 6, 7}

CallEstimateHours ==
    /\ pc = "idle"
    /\ \E score \in ScoreInputs, cls \in ClassInputs :
           Returns("estimate_hours",
                   [total_score |-> score, classification |-> cls],
                   estimate_hours(score, cls))

CallPredictPrice ==
    /\ pc = "idle"
    /\ \E h \in HoursInputs, rate \in RateInputs, hw \in HardwareInputs,
          risk \in PriceRiskInputs, profit \in ProfitInputs,
          score \in PriceScoreInputs, cls \in {"Normal", "Moderate", "Unknown"} :
           Returns("predict_price",
                   [estimated_hours |-> h, hourly_rate |-> Whole(rate),
                    hardware_cost |-> Whole(hw), risk_percent |-> risk,
                    profit_percent |-> profit, total_score |-> score,
                    classification |-> cls],
                   predict_price(h, Whole(rate), Whole(hw), risk, profit, score, cls))

\* model_type values of pricing requests: the five models and others.
ModelTypeInputs ==
    {"hourly", "fixed", "value_based", "complexity_multiplier", "modular",
     "Hourly", "", "per_feature"}

\* The rest of a pricing request: some keys given, the others left out.
PricingBodies ==
    {[hourly_rate |-> 100, estimated_hours |-> 10],
     [hourly_rate |-> 75, estimated_hours |-> 3, risk_percentage |-> 5,
      profit_margin |-> 25, hardware_costs |-> 200, software_costs |-> 30,
      maintenance_months |-> 2, maintenance_monthly_rate |-> 40,
      complexity_multiplier |-> 15, estimated_client_revenue |-> 9999,
      value_percentage |-> 7, modules |-> [development |-> 10, testing |-> 5, audit |-> 2]],
     [estimated_client_revenue |-> 5000, hardware_costs |-> 100],
     [modules |-> [research |-> 4], maintenance_months |-> 1]}

PricingRequests ==
    PricingBodies \cup {("model_type" :> mt) @@ body : mt \in ModelTypeInputs, body \in PricingBodies}

CallCalculate ==
    /\ pc = "idle"
    /\ \E request_data \in PricingRequests :
           Returns("calculate", request_data, calculate(request_data))

\* The response has been delivered; the next request may come.
Return ==
    /\ pc \in {"done", "drawn", "repeated"}
    /\ pc' = "idle"
    /\ op' = "none"
    /\ args' = NoValue
    /\ result' = NoValue
    /\ UNCHANGED <<rng, MARKET_BENCHMARKS, threads>>

Next ==
    \/ CallComplexityScore
    \/ CallInterpolate
    \/ CallRisk
    \/ CallAcceptance
    \/ CallOptimizeProfit
    \/ CallEstimateHours
    \/ CallPredictPrice
    \/ CallCalculate
    \/ Return

Spec == Init /\ [][Next]_vars

\* ------------------------------------------ requests of the full pipeline

\* The five dimension scores of full-analysis requests: the defaults (score 4)
\* and a project whose score (7) lies between two benchmarks.
DimVectors == {<<1, 1, 0, 1, 1>>, <<2, 1, 1, 2, 1>>}

\* hourly_rate and hardware_cost (0 = detect from the benchmarks).
PricingInputs == {<<0, 0>>, <<0, 1000>>, <<600, 1000>>}

\* safety_critical, has_ai, custom_pcb, large_scale
FlagInputs == {<<FALSE, FALSE, FALSE, FALSE>>, <<TRUE, TRUE, TRUE, FALSE>>}

\* quoted_price: None, or a quote in units of 1/MoneyScale.
QuoteInputs == {<<>>, <<2500000>>}

FullRequests ==
    { [hardware_score |-> d[1], software_score |-> d[2], ai_ml_score |-> d[3],
       deployment_score |-> d[4], risk_safety_score |-> d[5],
       hourly_rate |-> p[1], hardware_cost |-> p[2], profit_percent |-> 20,
       client_type |-> ct, safety_critical |-> f[1], has_ai |-> f[2],
       custom_pcb |-> f[3], large_scale |-> f[4], quoted_price |-> q] :
          d \in DimVectors, p \in PricingInputs, ct \in {"startup", "sme"},
          f \in FlagInputs, q \in QuoteInputs }

\* The total score of a full-analysis request.
RequestScore(req) ==
    compute_complexity_score(req.hardware_score, req.software_score, req.ai_ml_score,
                             req.deployment_score, req.risk_safety_score).total_score

\* A run of full_analysis: the report (or the error raised) goes on record, the
\* generator is left as the Monte Carlo step left it.
RunFullAnalysis(req, position) ==
    \E r \in {full_analysis(rng, req)} :
        /\ pc' = position
        /\ op' = "full_analysis"
        /\ args' = req
        /\ result' = IF r.raised = "none" THEN r.report ELSE [raised |-> r.raised]
        /\ rng' = r.rng
        /\ MARKET_BENCHMARKS' = TableAfterRanking(MARKET_BENCHMARKS, RequestScore(req))
        /\ UNCHANGED threads

\* api_full_analysis
CallFullAnalysis ==
    /\ pc = "idle"
    /\ \E req \in FullRequests : RunFullAnalysis(req, "done")

\* The client sends the request again, with quoted_price left out or set to the
\* predicted price of the report it has just received.
RepeatFullAnalysis ==
    /\ pc = "done"
    /\ op = "full_analysis"
    /\ \E q \in {<<>>, <<result.pricePrediction.predicted_price>>} :
           RunFullAnalysis([args EXCEPT !.quoted_price = q], "repeated")

\* _nearest_benchmarks(score, 3) on its own.
CallNearestBenchmarks ==
    /\ pc = "idle"
    /\ \E score \in ScoreInputs :
           /\ pc' = "done"
           /\ op' = "_nearest_benchmarks"
           /\ args' = [score |-> score, n |-> 3]
           /\ result' = _nearest_benchmarks(score, 3)
           /\ MARKET_BENCHMARKS' = TableAfterRanking(MARKET_BENCHMARKS, score)
           /\ UNCHANGED <<rng, threads>>

NextFull ==
    \/ CallInterpolate
    \/ CallEstimateHours
    \/ CallPredictPrice
    \/ CallNearestBenchmarks
    \/ CallFullAnalysis
    \/ RepeatFullAnalysis
    \/ Return

SpecFull == Init /\ [][NextFull]_vars

\* ------------------------------------------ requests that use the generator

\* MonteCarloRequest: num_simulations: int = Field(5000, ge=100, le=50000).
MinSims == 100

\* Largest simulation count a request is given here (the boundary allows 50000).
MaxSims == 101

\* hourly_rate, hardware_cost and delay_cost_per_week of a request, in cents.
CostInputs == {<<0, 0, 0>>, <<5000, 10000, 0>>, <<5000, 0, 5000>>, <<5000, 10000, 5000>>}

MCArgs ==
    { [base_hours |-> 1000, hourly_rate |-> c[1], hardware_cost |-> c[2],
       risk_percent |-> 8, has_ai |-> ai, custom_pcb |-> pcb,
       rework_probability |-> rp, delay_cost_per_week |-> c[3],
       num_simulations |-> n] :
          c \in CostInputs, ai \in BOOLEAN, pcb \in BOOLEAN, rp \in {15, 50},
          n \in MinSims..MaxSims }

\* api_monte_carlo: the call runs to its return on the event loop; it leaves the
\* generator as its last draw left it.
CallMonteCarlo ==
    /\ pc = "idle"
    /\ \E a \in MCArgs :
          \E r \in {monte_carlo_simulation(rng, a)} :
              /\ pc' = "done"
              /\ op' = "monte_carlo_simulation"
              /\ args' = a
              /\ result' = [result |-> r.result, results |-> r.results]
              /\ rng' = r.rng
    /\ UNCHANGED <<MARKET_BENCHMARKS, threads>>

\* A seed other code of the process gives the module-level generator.
OtherSeed == 7

\* Other code of the process uses the module-level generator after a response:
\* random.random(), random.gauss(0, 1) or random.seed(OtherSeed).  The last
\* response stays on record.
OtherDraw ==
    /\ pc = "done"
    /\ op = "monte_carlo_simulation"
    /\ pc' = "drawn"
    /\ rng' \in {Random(rng).rng, Gauss(rng, 0, 100).rng, Seed(OtherSeed)}
    /\ UNCHANGED <<op, args, result, MARKET_BENCHMARKS, threads>>

NextMC ==
    \/ CallMonteCarlo
    \/ OtherDraw
    \/ Return

SpecMC == Init /\ [][NextMC]_vars

\* ------------------------------------------ concurrent invocations

\* Invocations of monte_carlo_simulation running at once in one process.
Threads == {1, 2}

\* Largest num_simulations given to a concurrent invocation.
ParSims == 2

ParArgs ==
    { [base_hours |-> 1000, hourly_rate |-> 5000, hardware_cost |-> 10000,
       risk_percent |-> 8, has_ai |-> FALSE, custom_pcb |-> FALSE,
       rework_probability |-> 50, delay_cost_per_week |-> 5000,
       num_simulations |-> n] : n \in 1..ParSims }

\* A thread's frame: its position in monte_carlo_simulation and its locals.
IdleFrame ==
    [pc |-> "idle", args |-> NoValue, i |-> 0, sim_hours |-> 0, sim_hardware |-> 0,
     rework |-> 0, results |-> <<>>, result |-> NoValue]

InitPar ==
    /\ pc = "idle"
    /\ op = "none"
    /\ args = NoValue
    /\ result = NoValue
    /\ rng = Seed(0)
    /\ MARKET_BENCHMARKS = BenchmarkTable
    /\ threads = [t \in Threads |-> IdleFrame]

\* Thread t moves to frame f, leaving the generator as g.
Step(t, f, g) ==
    /\ threads' = [threads EXCEPT ![t] = f]
    /\ rng' = g
    /\ UNCHANGED <<pc, op, args, result, MARKET_BENCHMARKS>>

\* The call is made: the arguments are bound.
ParCall(t) ==
    /\ threads[t].pc = "idle"
    /\ \E a \in ParArgs :
          Step(t, [IdleFrame EXCEPT !.pc = "seed", !.args = a], rng)

\* random.seed(42); results = []
ParSeed(t) ==
    /\ threads[t].pc = "seed"
    /\ Step(t, [threads[t] EXCEPT !.pc = "hours"], Reseed(rng))

\* sim_hours = max(base_hours * 0.5, random.gauss(base_hours, hours_sigma))
ParHours(t) ==
    /\ threads[t].pc = "hours"
    /\ LET d == SimHours(rng, threads[t].args)
       IN  Step(t, [threads[t] EXCEPT !.pc = "hardware", !.sim_hours = d.value], d.rng)

\* sim_hardware = hardware_cost * random.uniform(0.85, 1.15)
ParHardware(t) ==
    /\ threads[t].pc = "hardware"
    /\ LET d == SimHardware(rng, threads[t].args)
       IN  Step(t, [threads[t] EXCEPT !.pc = "rework_test", !.sim_hardware = d.value],
                d.rng)

\* rework = 0; if random.random() < rework_probability:
ParReworkTest(t) ==
    /\ threads[t].pc = "rework_test"
    /\ LET d == ReworkHappens(rng, threads[t].args)
       IN  Step(t, [threads[t] EXCEPT !.pc = IF d.value THEN "rework" ELSE "delay",
                                      !.rework = 0], d.rng)

\* rework = sim_hours * hourly_rate * random.uniform(0.08, 0.25)
ParReworkCost(t) ==
    /\ threads[t].pc = "rework"
    /\ LET d == ReworkCost(rng, threads[t].args, threads[t].sim_hours)
       IN  Step(t, [threads[t] EXCEPT !.pc = "delay", !.rework = d.value], d.rng)

\* delay_weeks = max(0, random.gauss(...)), the total, results.append(total),
\* and the loop test.
ParDelay(t) ==
    /\ threads[t].pc = "delay"
    /\ LET f == threads[t]
           d == DelayTotal(rng, f.args)
           total == SampleTotal(f.args, f.sim_hours, f.sim_hardware, f.rework, d.value)
       IN  Step(t, [f EXCEPT !.pc = IF f.i + 1 < f.args.num_simulations
                                     THEN "hours" ELSE "sort",
                             !.i = f.i + 1, !.sim_hours = 0, !.sim_hardware = 0,
                             !.rework = 0, !.results = Append(f.results, total)],
                d.rng)

\* results.sort(), the aggregates, return.
ParFinish(t) ==
    /\ threads[t].pc = "sort"
    /\ LET f == threads[t]
           sorted == <<>> \o SortResults(f.results)
       IN  Step(t, [f EXCEPT !.pc = "done", !.results = sorted,
                             !.result = Aggregate(sorted, f.args)], rng)

NextPar ==
    \E t \in Threads :
        \/ ParCall(t)
        \/ ParSeed(t)
        \/ ParHours(t)
        \/ ParHardware(t)
        \/ ParReworkTest(t)
        \/ ParReworkCost(t)
        \/ ParDelay(t)
        \/ ParFinish(t)

SpecPar == InitPar /\ [][NextPar]_vars

\* The response of thread t, had its invocation run with no other alongside.
RunAlone(t) == monte_carlo_simulation(rng, threads[t].args).result

\* ------------------------------------------ properties: scoring and tables

Returned(name) == pc = "done" /\ op = name

\* Clamping to [0, 5], written out.
Clamped(v) == IF v < 0 THEN 0 ELSE IF v > 5 THEN 5 ELSE v

\* The tier ranges as the documentation gives them.
TierRange(cls) ==
    CASE cls = "Normal"     -> 0..6
      [] cls = "Moderate"   -> 7..12
      [] cls = "High"       -> 13..18
      [] cls = "Industrial" -> 19..25

Dimensions == {"hardware", "software", "ai_ml", "deployment", "risk_safety"}

\* C1: for all five integer inputs, negative and above 5 included,
\* compute_complexity_score returns each dimension clamped to [0, 5], a
\* total_score that is the sum of the clamped dimensions and lies in 0..25, and
\* as classification the one tier whose range holds total_score.
C1_ScoreClampedSummedClassified ==
    Returned("compute_complexity_score") =>
        /\ \A d \in Dimensions : result.scores[d] = Clamped(args[d])
        /\ result.total_score =
               Clamped(args.hardware) + Clamped(args.software) + Clamped(args.ai_ml)
               + Clamped(args.deployment) + Clamped(args.risk_safety)
        /\ result.total_score \in 0..25
        /\ result.classification \in Tiers
        /\ \A cls \in Tiers :
               (result.total_score \in TierRange(cls)) <=> (cls = result.classification)

\* A call with a negative dimension and one above 5 returned, in the top tier.
C1_Witness ==
    /\ Returned("compute_complexity_score")
    /\ args.hardware < 0
    /\ args.software > 5
    /\ result.classification = "Industrial"

GridScores == {4, 6, 9, 10, 12, 14, 16, 17, 20, 23}

\* The value the reference table stores under a field and sub-selector.
Stored(b, field, sub) ==
    CASE field = "rate"                          -> b.rate
      [] field = "hours" /\ sub = "low"          -> b.hours[1]
      [] field = "hours" /\ sub = "high"         -> b.hours[2]
      [] field = "hardware_cost" /\ sub = "low"  -> b.hardware_cost[1]
      [] field = "hardware_cost" /\ sub = "high" -> b.hardware_cost[2]
      [] field = "total_cost" /\ sub = "low"     -> b.total_cost[1]
      [] field = "total_cost" /\ sub = "high"    -> b.total_cost[2]

\* The benchmark of the reference table with a given score.
BenchmarkAt(score) ==
    BenchmarkTable[CHOOSE i \in 1..Len(BenchmarkTable) : BenchmarkTable[i].score = score]

\* C2: at each of the 10 benchmark scores, for every field and sub-selector,
\* _interpolate_from_benchmarks returns exactly the value stored in the
\* benchmark with that score; score 6 gives the hours range (35, 50).
C2_ExactAtGridScores ==
    /\ {BenchmarkTable[i].score : i \in 1..Len(BenchmarkTable)} = GridScores
    /\ Returned("_interpolate_from_benchmarks") /\ args.score \in GridScores =>
           /\ result = Stored(BenchmarkAt(args.score), args.field, args.sub) * LerpDen
           /\ args.score = 6 /\ args.field = "hours" =>
                  result = (IF args.sub = "low" THEN 35 ELSE 50) * LerpDen

\* The upper end of the hours range was asked for at score 6, and 50 came back.
C2_Witness ==
    /\ Returned("_interpolate_from_benchmarks")
    /\ args = [score |-> 6, field |-> "hours", sub |-> "high"]
    /\ result = 50 * LerpDen

\* C3: for every target score below 4 or above 23, for every field and
\* sub-selector, _interpolate_from_benchmarks returns exactly the value of the
\* score-4 entry, respectively of the score-23 entry.
C3_NoExtrapolation ==
    Returned("_interpolate_from_benchmarks") =>
        /\ args.score < 4 =>
               result = Stored(BenchmarkAt(4), args.field, args.sub) * LerpDen
        /\ args.score > 23 =>
               result = Stored(BenchmarkAt(23), args.field, args.sub) * LerpDen

\* A target above the table was asked for and the last entry's value came back.
C3_Witness ==
    /\ Returned("_interpolate_from_benchmarks")
    /\ args = [score |-> 25, field |-> "total_cost", sub |-> "high"]
    /\ result = 2500000 * LerpDen

\* 1 for a set flag, 0 for a clear one.
Flag(b) == IF b THEN 1 ELSE 0

\* C4: for every combination of the four flags, calculate_risk returns
\* risk_percent = min(35, 8 + 5*safety_critical + 4*has_ai + 3*custom_pcb +
\* 3*large_scale) and capped = (risk_percent >= 35); no flag gives 8 and not
\* capped, all four give 23 and not capped.
C4_RiskFormula ==
    Returned("calculate_risk") =>
        LET sum == 8 + 5 * Flag(args.safety_critical) + 4 * Flag(args.has_ai)
                   + 3 * Flag(args.custom_pcb) + 3 * Flag(args.large_scale)
            none == ~(args.safety_critical \/ args.has_ai \/ args.custom_pcb
                      \/ args.large_scale)
            all == args.safety_critical /\ args.has_ai /\ args.custom_pcb
                   /\ args.large_scale
        IN  /\ result.risk_percent = (IF sum > 35 THEN 35 ELSE sum)
            /\ result.capped = (result.risk_percent >= 35)
            /\ none => result.risk_percent = 8 /\ result.capped = FALSE
            /\ all => result.risk_percent = 23 /\ result.capped = FALSE

\* All four flags were set and 23, not capped, came back.
C4_Witness ==
    /\ Returned("calculate_risk")
    /\ args.safety_critical /\ args.has_ai /\ args.custom_pcb /\ args.large_scale
    /\ result.risk_percent = 23
    /\ ~result.capped

\* ------------------------------------------ properties: acceptance, optimizer

\* C5: for all quoted_price >= 0, predicted_optimal_price >= 0, classification,
\* client_type and risk_percent >= 0, the probability acceptance_probability
\* returns and each of the 17 entries of the returned probabilities curve lie in
\* [0.05, 0.95] (thousandths: 50..950).
C5_ProbabilityBounded ==
    Returned("acceptance_probability") /\ result.raised = "none" =>
        /\ args.quoted_price >= 0 /\ args.predicted_optimal_price >= 0
        /\ args.risk_percent >= 0
        /\ result.probability \in 50..950
        /\ Len(result.probabilities) = 17
        /\ \A i \in 1..17 : result.probabilities[i] \in 50..950

\* A quote so far above the market rate that only the floor keeps the
\* probability at 0.05, on a curve that reaches the ceiling.
C5_Witness ==
    /\ Returned("acceptance_probability")
    /\ result.raised = "none"
    /\ args.quoted_price = 10 * args.predicted_optimal_price
    /\ args.predicted_optimal_price >= MoneyScale
    /\ result.probability = 50
    /\ \E i \in 1..17 : result.probabilities[i] = 950

\* Expected revenue of margin m for the request on record, swept afresh.
Revenue(m) ==
    MarginRevenue(MoneyScale, args.base_cost, m, args.classification, args.client_type,
                  args.risk_percent)

\* C10: for all base_cost >= 0, tier, client_type and risk_percent,
\* optimize_profit returns as optimal_margin the smallest integer margin m in
\* 5..40 that maximizes price(m) * probability(m); a sweep of 5..40 made afresh
\* gives the same margin and the same optimal_revenue.
C10_SmallestArgmax ==
    Returned("optimize_profit") =>
        /\ args.base_cost >= 0
        /\ result.optimal_margin \in 5..40
        /\ \A m \in 5..40 : ~FLess(Revenue(result.optimal_margin), Revenue(m))
        /\ \A m \in 5..40 :
               m < result.optimal_margin => FLess(Revenue(m), Revenue(result.optimal_margin))
        /\ result.optimal_revenue =
               RoundRevenue(MoneyScale, Revenue(result.optimal_margin))

\* A sweep of positive revenues whose maximum is not at the first margin, so
\* that the best margin was replaced on the way.
C10_Witness ==
    /\ Returned("optimize_profit")
    /\ args.base_cost > 0
    /\ result.optimal_revenue > 0
    /\ result.optimal_margin > 5
    /\ FLess(Revenue(5), Revenue(result.optimal_margin))

\* ------------------------------------------ properties: Monte Carlo

\* A monte_carlo_simulation response is on record (other code may have used
\* the generator since).
Simulated == pc \in {"done", "drawn"} /\ op = "monte_carlo_simulation"

\* C6: after any sequence of earlier calls and draws, a call of
\* monte_carlo_simulation and the next call with the same arguments and the same
\* num_simulations return the same result: the response on record, obtained
\* from the generator as the history left it, equals the response the same call
\* gives from the generator as it is now.
C6_SequentialCallsAgree ==
    Simulated => monte_carlo_simulation(rng, args).result = result.result

\* A response is on record and other code has since left a cached deviate in
\* the generator, which is not in the state a fresh seed gives.
C6_Witness ==
    /\ Simulated
    /\ pc = "drawn"
    /\ rng.gauss_next # <<>>
    /\ rng # Seed(MonteCarloSeed)

\* C8: a call of monte_carlo_simulation leaves the process-wide generator in
\* the state it found it in.
C8_GeneratorUntouched ==
    [][pc = "idle" /\ op' = "monte_carlo_simulation" => rng' = rng]_vars

PercentileRanks == {5, 25, 50, 75, 90, 95}

\* The number of entries of s equal to v.
Count(s, v) == Cardinality({j \in 1..Len(s) : s[j] = v})

\* C9: for a run with num_simulations n >= 100, each reported percentile is
\* the sample at index floor(n * q) of the samples in ascending order, for q in
\* {0.05, 0.25, 0.50, 0.75, 0.90, 0.95}; each such index is below n; and
\* best_case <= p25 <= median <= p75 <= p90 <= worst_case.
C9_PercentilesIndexedOrdered ==
    Simulated =>
        LET n == args.num_simulations
            s == result.results
            r == result.result
            drawn == SamplingLoop(Seed(MonteCarloSeed), args, n).results
            At(q) == RoundHalfEven(s[(n * q) \div 100 + 1], MoneyScale)
        IN  /\ n >= 100
            /\ Len(s) = n /\ Len(drawn) = n
            /\ \A i \in 1..n : Count(s, drawn[i]) = Count(drawn, drawn[i])
            /\ \A i \in 1..(n - 1) : s[i] <= s[i + 1]
            /\ \A q \in PercentileRanks : (n * q) \div 100 < n
            /\ r.best_case = At(5) /\ r.p25 = At(25) /\ r.median = At(50)
            /\ r.p75 = At(75) /\ r.p90 = At(90) /\ r.worst_case = At(95)
            /\ r.best_case <= r.p25 /\ r.p25 <= r.median /\ r.median <= r.p75
            /\ r.p75 <= r.p90 /\ r.p90 <= r.worst_case

\* A run of an odd count whose samples spread: the six reported values are not
\* all equal, and floor(n * 0.05) is not n * 0.05.
C9_Witness ==
    /\ Simulated
    /\ pc = "done"
    /\ args.num_simulations = MinSims + 1
    /\ result.result.best_case < result.result.median
    /\ result.result.median < result.result.worst_case

\* C7: a concurrent invocation that has returned has returned what the same
\* invocation returns when it runs alone.
C7_ConcurrentAsAlone ==
    \A t \in Threads : threads[t].pc = "done" => threads[t].result = RunAlone(t)

\* ------------------------------------------ price prediction

\* (hours * rate + hardware_cost) * (1 + risk/100) * (1 + profit/100) of a
\* price request.
PriceFormula(a) ==
    FScale(FScale(FAdd(FScale(a.hourly_rate, a.estimated_hours, 1), a.hardware_cost),
                  100 + a.risk_percent, 100),
           100 + a.profit_percent, 100)

\* The midpoint of the interpolated low and high of a field at a score.
Midpoint(score, field) ==
    Frac(_interpolate_from_benchmarks(score, field, "low")
         + _interpolate_from_benchmarks(score, field, "high"), 2 * LerpDen)

\* hardware_cost / midpoint lies in [0.3, 2.0]: not a non-standard configuration.
StandardHardware(a) ==
    LET mid == Midpoint(a.total_score, "hardware_cost")
    IN  /\ ~FLess(FScale(a.hardware_cost, 10, 1), FScale(mid, 3, 1))
        /\ ~FLess(FScale(mid, 2, 1), a.hardware_cost)

\* w/10 * formula + (10 - w)/10 * benchmark midpoint, rounded to 2 places.
Blend(a, w) ==
    FRound2(FAdd(FScale(PriceFormula(a), w, 10),
                 FScale(Midpoint(a.total_score, "total_cost"), 10 - w, 10)))

ExampleRequest ==
    [estimated_hours |-> 30, hourly_rate |-> Whole(600), hardware_cost |-> Whole(1000),
     risk_percent |-> 8, profit_percent |-> 20, total_score |-> 6,
     classification |-> "Normal"]

\* C11: predict_price returns formula_price = (hours * rate + hardware_cost)
\* * (1 + risk/100) * (1 + profit/100); when hardware_cost is within 0.3 to 2.0
\* times the benchmark hardware midpoint, predicted_price = 0.60 * formula
\* + 0.40 * (midpoint of the interpolated total_cost range); the request
\* (30, 600, 1000, 8, 20, score 6, Normal) gives 24624.00 and 27374.40.
C11_FormulaAndDefaultBlend ==
    Returned("predict_price") =>
        /\ result.formula_price = FRound2(PriceFormula(args))
        /\ StandardHardware(args) => result.predicted_price = Blend(args, 6)
        /\ args = ExampleRequest =>
               /\ result.formula_price = 2462400
               /\ result.predicted_price = 2737440

C11_Witness ==
    /\ Returned("predict_price")
    /\ args = ExampleRequest
    /\ StandardHardware(args)
    /\ result.predicted_price = 2737440

\* ------------------------------------------ acceptance curve

\* The position of a multiplier (hundredths) in the curve.
CurveIndex(mult) == CHOOSE i \in 1..Len(CurveMultipliers) : CurveMultipliers[i] = mult

\* The request quotes the predicted optimal price itself, which is at least 1.
QuotedAtOptimal ==
    /\ Returned("acceptance_probability")
    /\ args.predicted_optimal_price >= MoneyScale
    /\ args.quoted_price = args.predicted_optimal_price

\* C12: for every client type, tier and risk_percent and every
\* predicted_optimal_price >= 1, the curve entry at multiplier 1.00 equals the
\* primary probability returned for quoted_price = predicted_optimal_price.
C12_CurveAgreesAtOptimal ==
    QuotedAtOptimal => result.probabilities[CurveIndex(100)] = result.probability

\* ------------------------------------------ full analysis repeated

\* The sections of a report other than acceptanceModel and reasoning.
AnalysisSections ==
    {"complexity", "hours", "risk", "pricePrediction", "riskSimulation",
     "profitOptimization", "complexityAnalysis", "similar_projects", "market_context"}

\* The repeated call quotes the predicted price (or leaves the quote out) and
\* finds relative price 1.0 and the logistic value at 1.0.
RoundTripAtOptimal ==
    /\ result'.acceptanceModel.relative_price = 1000
    /\ result'.acceptanceModel.base_acceptance = Round3(_logistic_acceptance(ProbScale))

\* The reasoning of the repeated report is that of the first one but for the
\* acceptance percentage and verdict it quotes.
ReasoningFollowsAcceptance ==
    result'.reasoning =
        [result.reasoning EXCEPT
            !.probability_pct = result'.acceptanceModel.probability_pct,
            !.verdict = result'.acceptanceModel.verdict]

\* C13 as stated: calling full_analysis again with quoted_price set to the first
\* report's predicted_price (or left out) yields relative_price = 1.0 and
\* base_acceptance = the logistic value at 1.0, and every other section of the
\* report, reasoning included, is as in the first report.
C13_RoundTripAllSections ==
    [][pc' = "repeated" =>
          /\ RoundTripAtOptimal
          /\ \A sec \in AnalysisSections \cup {"reasoning"} : result'[sec] = result[sec]]_vars

\* C13 (amended): the repeated call yields relative_price = 1.0 and
\* base_acceptance = the logistic value at 1.0; the sections other than
\* acceptanceModel and reasoning are unchanged, and reasoning changes only in
\* the acceptance percentage and verdict it quotes.
C13_RoundTrip ==
    [][pc' = "repeated" =>
          /\ RoundTripAtOptimal
          /\ \A sec \in AnalysisSections : result'[sec] = result[sec]
          /\ ReasoningFollowsAcceptance]_vars

\* A repeated call that quotes the first report's predicted price.
C13_Witness ==
    /\ pc = "repeated"
    /\ op = "full_analysis"
    /\ args.quoted_price = <<result.pricePrediction.predicted_price>>
    /\ result.acceptanceModel.relative_price = 1000
    /\ result.acceptanceModel.current_price = result.acceptanceModel.market_rate

\* ------------------------------------------ acceptance: error paths

\* C14: for every quoted_price >= 0 and predicted_optimal_price >= 0 that the
\* request boundary accepts (predicted_optimal_price = 0 and large quotes
\* included), acceptance_probability completes and returns a probability; it
\* raises no error.
C14_NoFatalError ==
    (/\ Returned("acceptance_probability")
     /\ args.quoted_price >= 0
     /\ args.predicted_optimal_price >= 0)
        => (result.raised = "none" /\ result.probability \in 0..1000)

\* ------------------------------------------ pricing models

PricingModels == {"hourly", "fixed", "value_based", "complexity_multiplier", "modular"}

\* The keys of the breakdown each model returns: they tell the models apart.
BreakdownKeys ==
    [hourly |-> {"hourly_rate", "hours", "base_labor", "risk_pct", "profit_pct"},
     fixed |-> {"labor", "materials", "risk_pct", "profit_pct"},
     value_based |-> {"client_revenue", "value_pct", "value_amount"},
     complexity_multiplier |-> {"base_cost", "multiplier", "adjusted_cost"},
     modular |-> {"modules", "total_hours"}]

\* The model_type a pricing request asks for (hourly when it names none).
Requested == Get(args, "model_type", "hourly")

\* C15: PricingEngine.calculate, given one of the five model types, returns the
\* result of exactly that model, whose model_type is the requested one; given
\* any other model_type it fails with an 'Unknown pricing model' error and
\* returns no result.
C15_DispatchOrUnknown ==
    Returned("calculate") =>
        IF Requested \in PricingModels
        THEN /\ "raised" \notin DOMAIN result
             /\ result.model_type = Requested
             /\ DOMAIN result.breakdown = BreakdownKeys[Requested]
        ELSE /\ DOMAIN result = {"raised", "message"}
             /\ result.raised = "ValueError"
             /\ result.message = <<"Unknown pricing model", Requested>>

\* An unrecognized model type has been refused.
C15_Witness ==
    /\ Returned("calculate")
    /\ "model_type" \in DOMAIN args
    /\ Requested = "per_feature"
    /\ result.raised = "ValueError"

\* ------------------------------------------ the benchmark table

\* C16: after any sequence of interpolations, hours estimates, price
\* predictions, nearest-benchmark lookups and full analyses the benchmark table
\* is as it was loaded: 10 entries, in the same order, with strictly increasing
\* scores and the same field values.
C16_TableUnchanged ==
    /\ Len(MARKET_BENCHMARKS) = 10
    /\ \A i \in 1..(Len(MARKET_BENCHMARKS) - 1) :
           MARKET_BENCHMARKS[i].score < MARKET_BENCHMARKS[i + 1].score
    /\ MARKET_BENCHMARKS = BenchmarkTable

\* A lookup has ranked the benchmarks in another order than the table's, and
\* the table is as it was.
C16_Witness ==
    /\ pc = "done"
    /\ op = "_nearest_benchmarks"
    /\ result[1].score > result[2].score
    /\ MARKET_BENCHMARKS = BenchmarkTable

\* ------------------------------------------ interpolation between benchmarks

\* The benchmark scores next to a target: the largest below, the smallest above.
ScoreBelow(score) == CHOOSE g \in GridScores :
    g < score /\ \A h \in GridScores : h < score => h <= g

ScoreAbove(score) == CHOOSE g \in GridScores :
    g > score /\ \A h \in GridScores : h > score => h >= g

\* The target lies strictly between the smallest and the largest benchmark
\* score and is not a benchmark score itself.
StrictlyInside(score) ==
    /\ score \notin GridScores
    /\ \E g \in GridScores : g < score
    /\ \E g \in GridScores : g > score

\* C17: for every integer target strictly between the smallest and the largest
\* benchmark score that is not a benchmark score, _interpolate_from_benchmarks
\* returns lo + (target - score_lo) / (score_hi - score_lo) * (hi - lo), where
\* lo and hi are the values of the two adjacent benchmarks.
C17_LinearBetweenAdjacent ==
    (Returned("_interpolate_from_benchmarks") /\ StrictlyInside(args.score)) =>
        LET score_lo == ScoreBelow(args.score)
            score_hi == ScoreAbove(args.score)
            lo == Stored(BenchmarkAt(score_lo), args.field, args.sub)
            hi == Stored(BenchmarkAt(score_hi), args.field, args.sub)
        IN  result * (score_hi - score_lo) =
                LerpDen * (lo * (score_hi - score_lo) + (args.score - score_lo) * (hi - lo))

\* total_cost low at score 7, a third of the way from 25000 (score 6) to 55000
\* (score 9): 35000.
C17_Witness ==
    /\ Returned("_interpolate_from_benchmarks")
    /\ args = [score |-> 7, field |-> "total_cost", sub |-> "low"]
    /\ StrictlyInside(args.score)
    /\ result = 35000 * LerpDen

\* ------------------------------------------ monotone fields

\* The stored values of a field are non-decreasing in benchmark score.
MonotoneStored(field, sub) ==
    \A g \in GridScores, h \in GridScores :
        g <= h => Stored(BenchmarkAt(g), field, sub) <= Stored(BenchmarkAt(h), field, sub)

\* C18: hours (low and high), rate and total_cost (low and high) are stored
\* non-decreasing in benchmark score, and for each field stored so the value
\* _interpolate_from_benchmarks returns is non-decreasing in the target score
\* over the integer scores 0..25 (each score's value is at most the next one's).
C18_MonotoneInterpolation ==
    (Returned("_interpolate_from_benchmarks") /\ args.score \in 0..24) =>
        /\ args.field \in {"hours", "rate", "total_cost"} =>
               MonotoneStored(args.field, args.sub)
        /\ MonotoneStored(args.field, args.sub) =>
               result <= _interpolate_from_benchmarks(args.score + 1, args.field, args.sub)

\* An interpolated value of a monotone field that the next score exceeds.
C18_Witness ==
    /\ Returned("_interpolate_from_benchmarks")
    /\ args = [score |-> 7, field |-> "hours", sub |-> "high"]
    /\ MonotoneStored(args.field, args.sub)
    /\ result < _interpolate_from_benchmarks(8, args.field, args.sub)

\* ------------------------------------------ blend weights

\* C19 as stated: for every hardware_cost >= 0 and total_score, predict_price
\* blends 0.80 * formula + 0.20 * benchmark whenever hardware_cost divided by
\* the interpolated hardware midpoint is above 2.0 or below 0.3, and
\* 0.60 * formula + 0.40 * benchmark otherwise.
C19_ReweightByRatio ==
    (Returned("predict_price") /\ ~FLess(args.hardware_cost, Whole(0))) =>
        result.predicted_price =
            IF StandardHardware(args) THEN Blend(args, 6) ELSE Blend(args, 8)

\* C19 (amended): for every hardware_cost > 0 and total_score, predict_price
\* blends 0.80 * formula + 0.20 * benchmark whenever hardware_cost divided by
\* the interpolated hardware midpoint is above 2.0 or below 0.3, and
\* 0.60 * formula + 0.40 * benchmark otherwise; for hardware_cost = 0 it blends
\* 0.60 * formula + 0.40 * benchmark.
C19_ReweightGivenHardware ==
    (Returned("predict_price") /\ ~FLess(args.hardware_cost, Whole(0))) =>
        result.predicted_price =
            IF FLess(Whole(0), args.hardware_cost) /\ ~StandardHardware(args)
            THEN Blend(args, 8)
            ELSE Blend(args, 6)

\* A hardware cost above twice the benchmark midpoint, where the two blends
\* differ and the re-weighted one came back.
C19_Witness ==
    /\ Returned("predict_price")
    /\ FLess(FScale(Midpoint(args.total_score, "hardware_cost"), 2, 1), args.hardware_cost)
    /\ Blend(args, 8) # Blend(args, 6)
    /\ result.predicted_price = Blend(args, 8)

\* ------------------------------------------ hours estimate

\* The hour range of each tier.
TierHours ==
    [Normal |-> <<25, 50>>, Moderate |-> <<60, 140>>,
     High |-> <<120, 300>>, Industrial |-> <<250, 600>>]

\* Twice f, where f = (tier midpoint + 2 * score) clamped into the tier range.
TwiceFormulaMid(score, tier) ==
    Max(2 * TierHours[tier][1],
        Min(2 * TierHours[tier][2], TierHours[tier][1] + TierHours[tier][2] + 4 * score))

\* C20: for every total_score 0..25 with its own tier, estimate_hours returns
\* estimated_hours = round(0.7 * (bm_lo + bm_hi) / 2 + 0.3 * f), bm_lo and
\* bm_hi the hour bounds interpolated at the score, f = (tier midpoint +
\* 2 * score) clamped into the tier's range (Normal 25-50, Moderate 60-140,
\* High 120-300, Industrial 250-600).
C20_HoursBlend ==
    (/\ Returned("estimate_hours")
     /\ args.total_score \in 0..25
     /\ args.classification = classify_complexity(args.total_score))
        => LET bm_lo == _interpolate_from_benchmarks(args.total_score, "hours", "low")
               bm_hi == _interpolate_from_benchmarks(args.total_score, "hours", "high")
           IN  result.estimated_hours =
                   RoundHalfEven(7 * (bm_lo + bm_hi)
                                 + 3 * LerpDen * TwiceFormulaMid(args.total_score,
                                                                 args.classification),
                                 20 * LerpDen)

\* Score 7 in its own tier: 0.7 * (43.33 + 63.33) / 2 + 0.3 * 114 = 71.53.
C20_Witness ==
    /\ Returned("estimate_hours")
    /\ args = [total_score |-> 7, classification |-> "Moderate"]
    /\ result.estimated_hours = 72

\* ------------------------------------------ properties: the hour range

\* bm_lo and bm_hi of estimate_hours at the score of the call, in sixths.
HourBound(sub) == _interpolate_from_benchmarks(args.total_score, "hours", sub)

\* n is the integer nearest to v / LerpDen, the even one of two equally near.
NearestInteger(n, v) ==
    LET d == n * LerpDen - v
    IN  /\ 0 - LerpDen <= 2 * d
        /\ 2 * d <= LerpDen
        /\ (2 * d = LerpDen \/ 2 * d = 0 - LerpDen) => n % 2 = 0

\* C21 as stated: for every total_score 0..25, estimate_hours returns as
\* range_min and range_max exactly the interpolated hour bounds bm_lo and bm_hi,
\* unaltered.
C21_RangeVerbatim ==
    (Returned("estimate_hours") /\ args.total_score \in 0..25)
        => /\ result.range_min * LerpDen = HourBound("low")
           /\ result.range_max * LerpDen = HourBound("high")

\* C21 as the code has it: for every total_score 0..25, range_min and range_max
\* are bm_lo and bm_hi rounded to the nearest integer, and the range and
\* benchmark_range strings are made of the same two integers.
C21_RangeRounded ==
    (Returned("estimate_hours") /\ args.total_score \in 0..25)
        => /\ NearestInteger(result.range_min, HourBound("low"))
           /\ NearestInteger(result.range_max, HourBound("high"))
           /\ result.range = <<result.range_min, result.range_max>>
           /\ result.benchmark_range = result.range

\* Score 8 lies two thirds of the way from benchmark 6 (35-50 h) to benchmark 9
\* (60-90 h): the bounds 51.67 and 76.67 are returned as 52 and 77.
C21_Witness ==
    /\ Returned("estimate_hours")
    /\ args.total_score = 8
    /\ HourBound("low") = 310
    /\ HourBound("high") = 460
    /\ result.range_min = 52
    /\ result.range_max = 77

\* ------------------------------------------ properties: the adjustment

\* The client type of the request is ct in some spelling of upper and lower case.
ClientIs(ct) ==
    \/ args.client_type = ct
    \/ ct = "student" /\ args.client_type = "Student"
    \/ ct = "sme" /\ args.client_type = "SME"
    \/ ct = "enterprise" /\ args.client_type = "Enterprise"

\* relative price > 1.0: quoted_price / max(predicted_optimal_price, 1) > 1.
AboveOptimal == args.quoted_price > Max(args.predicted_optimal_price, MoneyScale)

\* The client/tier term and the risk term of the claim, in hundredths.
ClientTerm ==
    IF ClientIs("student") /\ args.classification = "Normal" THEN 10
    ELSE IF ClientIs("student") /\ args.classification = "Moderate" THEN 5
    ELSE IF ClientIs("enterprise") /\ AboveOptimal THEN 0 - 10
    ELSE IF ClientIs("sme") /\ ~AboveOptimal THEN 5
    ELSE 0

RiskTerm ==
    IF args.risk_percent > 25 THEN 0 - 10
    ELSE IF args.risk_percent > 18 THEN 0 - 5
    ELSE 0

\* C22: the adjustment of acceptance_probability is the sum of at most one
\* client/tier term (student+Normal +0.10, student+Moderate +0.05, enterprise
\* above relative price 1.0 -0.10, sme at or below 1.0 +0.05, else 0, the client
\* type compared without regard to case) and at most one risk term (> 25: -0.10,
\* else > 18: -0.05, else 0); it lies in [-0.20, +0.10], and each family gives
\* its term whatever the other gives.
C22_AdjustmentSum ==
    (Returned("acceptance_probability") /\ result.raised = "none")
        => /\ result.adjustment = ClientTerm + RiskTerm
           /\ result.adjustment \in (0 - 20)..10
           /\ Len(result.adjustment_reasons)
                  = (IF ClientTerm # 0 THEN 1 ELSE 0) + (IF RiskTerm # 0 THEN 1 ELSE 0)

\* A student written with a capital letter, a Normal project and risk above 25:
\* +0.10 and -0.10 are both applied and cancel.
C22_Witness ==
    /\ Returned("acceptance_probability")
    /\ result.raised = "none"
    /\ args.client_type = "Student"
    /\ args.classification = "Normal"
    /\ args.risk_percent = 26
    /\ Len(result.adjustment_reasons) = 2
    /\ result.adjustment = 0

\* ------------------------------------------ properties: similar projects

\* A state in which a list of nearest benchmarks is on record: a full analysis
\* that has returned its report, or a lookup on its own.
SimilarOnRecord ==
    \/ /\ op = "full_analysis"
       /\ pc \in {"done", "repeated"}
       /\ "similar_projects" \in DOMAIN result
    \/ /\ op = "_nearest_benchmarks"
       /\ pc = "done"

\* The score the list was asked for, and the benchmarks listed, by id.
SimilarTo == IF op = "full_analysis" THEN RequestScore(args) ELSE args.score

SimilarIds ==
    IF op = "full_analysis"
    THEN [i \in 1..Len(result.similar_projects) |-> result.similar_projects[i].name]
    ELSE [i \in 1..Len(result) |-> result[i].id]

\* The row of benchmark id in the table, and its distance from the score.
TablePlace(id) == CHOOSE i \in 1..Len(MARKET_BENCHMARKS) : MARKET_BENCHMARKS[i].id = id

ScoreDistance(id) == Distance(MARKET_BENCHMARKS[TablePlace(id)], SimilarTo)

\* Benchmark a goes before benchmark b: it is nearer, or as near and earlier in
\* the table.
GoesBefore(a, b) ==
    \/ ScoreDistance(a) < ScoreDistance(b)
    \/ ScoreDistance(a) = ScoreDistance(b) /\ TablePlace(a) < TablePlace(b)

\* C23: for every total_score 0..25 the similar projects are exactly 3
\* benchmarks of the table, no unlisted benchmark is strictly nearer in score
\* than a listed one, they are listed by increasing distance, and of benchmarks
\* at equal distance the one earlier in the table is preferred and listed first.
C23_ThreeNearest ==
    (SimilarOnRecord /\ SimilarTo \in 0..25)
        => LET ids == SimilarIds
               listed == {ids[i] : i \in 1..Len(ids)}
               all == {MARKET_BENCHMARKS[i].id : i \in 1..Len(MARKET_BENCHMARKS)}
           IN  /\ Len(ids) = 3
               /\ Cardinality(listed) = 3
               /\ listed \subseteq all
               /\ \A i \in 1..2 : GoesBefore(ids[i], ids[i + 1])
               /\ \A r \in listed, u \in all \ listed : GoesBefore(r, u)

\* A full analysis at score 7: benchmark 2 (score 6) and benchmark 3 (score 9)
\* come first; benchmarks 1 (score 4) and 4 (score 10) are both 3 away, and the
\* earlier one is the third listed.
C23_Witness ==
    /\ op = "full_analysis"
    /\ pc = "done"
    /\ RequestScore(args) = 7
    /\ SimilarIds = <<2, 3, 1>>
    /\ ScoreDistance(1) = ScoreDistance(4)

\* ------------------------------------------ properties: auto-detection

\* A full analysis has returned its report.
Analysed ==
    /\ op = "full_analysis"
    /\ pc \in {"done", "repeated"}
    /\ "pricePrediction" \in DOMAIN result

\* The rate and the hardware cost the claim names for the request on record:
\* the request's own when positive, else the benchmark rate interpolated at the
\* total score and the midpoint of the interpolated hardware-cost range.
RateToUse ==
    IF args.hourly_rate > 0 THEN Whole(args.hourly_rate)
    ELSE FromLerp(_interpolate_from_benchmarks(RequestScore(args), "rate", "low"))

HardwareToUse ==
    IF args.hardware_cost > 0 THEN Whole(args.hardware_cost)
    ELSE Frac(_interpolate_from_benchmarks(RequestScore(args), "hardware_cost", "low")
              + _interpolate_from_benchmarks(RequestScore(args), "hardware_cost", "high"),
              2 * LerpDen)

\* The three steps run afresh with that rate and hardware cost, and with the
\* hours, risk and tier of the report.
PriceWith(rate, hw) ==
    predict_price(result.hours.estimated_hours, rate, hw, result.risk.risk_percent,
                  args.profit_percent, result.complexity.total_score,
                  result.complexity.classification)

SimulationWith(rate, hw) ==
    monte_carlo_simulation(rng,
        [base_hours |-> result.hours.estimated_hours * HourScale,
         hourly_rate |-> FRound2(rate),
         hardware_cost |-> FRound2(hw),
         risk_percent |-> result.risk.risk_percent,
         has_ai |-> args.has_ai, custom_pcb |-> args.custom_pcb,
         rework_probability |-> DefaultRework,
         delay_cost_per_week |-> DefaultDelayCost * MoneyScale,
         num_simulations |-> DefaultSims]).result

ProfitWith(rate, hw) ==
    OptimizeProfitIn(12,
        Twelfths(FAdd(FScale(rate, result.hours.estimated_hours, 1), hw)),
        result.complexity.classification, args.client_type, result.risk.risk_percent)

\* C24: in full_analysis, with hourly_rate 0 the rate used for the price
\* prediction, the Monte Carlo simulation and the profit optimization is the
\* benchmark rate interpolated at total_score; with hardware_cost 0 the hardware
\* cost used in all three is the midpoint of the interpolated hardware-cost
\* range; a positive rate or hardware cost of the caller goes to all three as
\* it is.
C24_AutoDetect ==
    Analysed
        => /\ result.pricePrediction = PriceWith(RateToUse, HardwareToUse)
           /\ result.riskSimulation = SimulationWith(RateToUse, HardwareToUse)
           /\ result.profitOptimization = ProfitWith(RateToUse, HardwareToUse)
           /\ result.market_context.hardware_cost_estimate = FRound(HardwareToUse)

\* Score 7 with neither rate nor hardware cost given: the rate is 666.67
\* (between 600 at score 6 and 800 at score 9), the hardware cost 2666.67 (the
\* middle of 2000-3333.33), and the price differs from the one a rate of 600 and
\* a hardware cost of 1000 give.
C24_Witness ==
    /\ Analysed
    /\ RequestScore(args) = 7
    /\ args.hourly_rate = 0
    /\ args.hardware_cost = 0
    /\ FRound(RateToUse) = 667
    /\ FRound(HardwareToUse) = 2667
    /\ result.pricePrediction = PriceWith(RateToUse, HardwareToUse)
    /\ result.pricePrediction # PriceWith(Whole(600), Whole(1000))

\* ------------------------------------------ properties: estimate and range

\* C25: for every total_score 0..25 classified into its own tier, the point
\* estimate of estimate_hours lies inside the range returned with it:
\* range_min <= estimated_hours <= range_max.
C25_EstimateInsideRange ==
    (/\ Returned("estimate_hours")
     /\ args.total_score \in 0..25
     /\ args.classification = classify_complexity(args.total_score))
        => /\ result.range_min <= result.estimated_hours
           /\ result.estimated_hours <= result.range_max

\* ------------------------------------------ properties: the histogram

\* C26: for every run of monte_carlo_simulation the histogram has exactly 20
\* bins and its frequency entries sum to num_simulations: every sampled total,
\* the largest one included, is counted in exactly one bin.
C26_HistogramCountsAll ==
    Simulated
        => /\ Len(result.result.bins) = NumBins
           /\ Len(result.result.frequency) = NumBins
           /\ SumSeq(result.result.frequency) = args.num_simulations

\* ------------------------------------------ properties: rework probability

\* C27: for every rework_probability in [0, 1] a caller gives, the rework
\* probability the run uses with custom_pcb set is at least the one it uses
\* without (hundredths).
C27_CustomPcbNeverLowers ==
    (Simulated /\ args.rework_probability \in 0..100)
        => EffectiveRework(TRUE, args.rework_probability)
               >= EffectiveRework(FALSE, args.rework_probability)

\* ------------------------------------------ properties: the risk breakdown

\* The labels of a breakdown in the order the calculator lists them.
BreakdownOrder ==
    <<"Base risk", "Safety critical", "AI/ML involved", "Custom PCB",
      "Large-scale deployment">>

OrderOf(label) == CHOOSE i \in 1..Len(BreakdownOrder) : BreakdownOrder[i] = label

\* C28: for all 16 combinations of the four flags calculate_risk returns
\* capped = False and risk_percent <= 23, so the ceiling of 35 is never reached,
\* and the amounts of the breakdown (base, safety critical, AI/ML, custom PCB,
\* large-scale, in that order) sum to risk_percent.
C28_NeverCappedBreakdownSums ==
    Returned("calculate_risk")
        => LET b == result.breakdown
           IN  /\ result.capped = FALSE
               /\ result.risk_percent <= 23
               /\ result.risk_percent < RiskCap
               /\ b[1] = <<"Base risk", 8>>
               /\ \A i \in 1..Len(b) : b[i][1] \in {BreakdownOrder[k] : k \in 1..5}
               /\ \A i \in 1..(Len(b) - 1) : OrderOf(b[i][1]) < OrderOf(b[i + 1][1])
               /\ SumSeq([i \in 1..Len(b) |-> b[i][2]]) = result.risk_percent

\* All four flags set: five amounts, 8 + 5 + 4 + 3 + 3 = 23, not capped.
C28_Witness ==
    /\ Returned("calculate_risk")
    /\ args.safety_critical /\ args.has_ai /\ args.custom_pcb /\ args.large_scale
    /\ Len(result.breakdown) = 5
    /\ result.breakdown[5] = <<"Large-scale deployment", 3>>
    /\ result.risk_percent = 23
    /\ result.capped = FALSE

\* ------------------------------------------ properties: the optimal margin

\* C29: for every base_cost >= 1 and every tier, client_type and
\* risk_percent >= 0, optimize_profit returns optimal_margin = 5: the expected
\* revenue price(m) * probability(m) is largest at the lowest margin of the
\* sweep 5..40, so no other margin is ever selected.
C29_LowestMarginOptimal ==
    (Returned("optimize_profit") /\ args.base_cost >= MoneyScale)
        => /\ args.risk_percent >= 0
           /\ result.optimal_margin = FirstMargin
           /\ \A m \in (FirstMargin + 1)..LastMargin : FLess(Revenue(m), Revenue(FirstMargin))
           /\ result.optimal_revenue = RoundRevenue(MoneyScale, Revenue(FirstMargin))

\* An enterprise request of high risk and base cost 160.00: the probability
\* of the last margin is at its floor and margin 5 is returned.
C29_Witness ==
    /\ Returned("optimize_profit")
    /\ args.base_cost = 16000
    /\ args.client_type = "enterprise"
    /\ args.risk_percent > 25
    /\ result.optimal_margin = 5
    /\ result.optimal_price = 168
    /\ result.optimal_revenue > 0
    /\ FLess(Revenue(40), Revenue(5))

\* ------------------------------------------ properties: price monotonicity

\* The response to the request on record had its quoted price been q.
QuotedAt(q) ==
    acceptance_probability(q, args.predicted_optimal_price, args.classification,
                           args.client_type, args.risk_percent)

\* C30: for fixed predicted_optimal_price >= 1, classification, client_type
\* and risk_percent, the final (adjusted and clamped) probability returned by
\* acceptance_probability is non-increasing in quoted_price, also across the
\* relative price 1.0 where the enterprise and sme adjustments switch.
C30_ProbabilityNonIncreasing ==
    (/\ Returned("acceptance_probability")
     /\ args.predicted_optimal_price >= MoneyScale
     /\ result.raised = "none")
        => \A q \in QuotedInputs :
               (q >= args.quoted_price /\ QuotedAt(q).raised = "none")
                   => QuotedAt(q).probability <= result.probability

\* A quote just above the optimal price of 10.00 for an enterprise or SME
\* client: the adjustment differs from that of the quote at the optimal price,
\* and the probability is lower.
C30_Witness ==
    /\ Returned("acceptance_probability")
    /\ args.predicted_optimal_price = 1000
    /\ args.quoted_price = 1001
    /\ Lower(args.client_type) \in {"enterprise", "sme"}
    /\ result.raised = "none"
    /\ result.adjustment # QuotedAt(1000).adjustment
    /\ result.probability < QuotedAt(1000).probability
    /\ result.probability > QuotedAt(1500).probability

====
